---------------------------- MODULE Spec2Model ----------------------------
(***************************************************************************)
(* Response parsing of the Panda Restaurant Group dashboard backend:       *)
(* extract_sql_from_text, extract_data_from_text and ask_genie_structured  *)
(* of backend/genie_client_local.py (its twin genie_client_databricks.py   *)
(* holds the same code, the insights notebook a shorter copy); the claim   *)
(* validator of validate_analysis.py; sql_query of db_utils_local.py; and  *)
(* the health, KPI, query and upload endpoints of backend/app.py.          *)
(*                                                                         *)
(* A text is a sequence of lexical tokens, each a maximal piece of the     *)
(* Python string the regular expressions and the line scanner tell apart:  *)
(* the fence of three backticks, the tag "sql", a statement keyword, a    *)
(* run of blanks, ";", "|", a run of dashes and colons, a line break, a   *)
(* word. Cells hold no double quote.                                       *)
(***************************************************************************)
EXTENDS Integers, Sequences, FiniteSets, TLC

VARIABLES
    text,     \* the text handed to the extractors (the assistant's response)
    pc,       \* where the caller is
    sql,      \* what extract_sql_from_text returned
    df,       \* what extract_data_from_text returned
    raised,   \* whether the last call let an exception out
    tbl,      \* the table the text was rendered from, when it was
    reply,    \* what agent.invoke returned or raised
    content,  \* ask_genie_structured's local: the response text it found
    result,   \* the GenieResult ask_genie_structured returned
    calls,    \* the calls ask_genie_structured made, in order
    facts,    \* the validator's fact table (self.df)
    outcomes, \* the validator's self.validation_results
    summary,  \* what run_all_validations returned, less the detailed results
    band,     \* the qualitative line run_all_validations printed
    copies,   \* what the other copies of extract_sql_from_text returned
    runs,     \* the calls of run_all_validations in progress or returned
    kept,     \* each validator's self.validation_results
    health,   \* what get_genie_health_status returned
    request,  \* the request an endpoint of app.py received
    response  \* the HTTP response the endpoint gave

\* The variables of the callers of the extractors and the validator.
serviceVars == <<copies, runs, kept, health, request, response>>

vars == <<text, pc, sql, df, raised, tbl, reply, content, result,
          calls, facts, outcomes, summary, band,
          copies, runs, kept, health, request, response>>

\* ------------------------------------------------------------- bounds
\* Longest text of the SQL extraction runs, in tokens.
MaxLen == 5

\* Most columns and most data rows of a rendered table.
MaxCols == 2

MaxRows == 2

\* Most lines of a scanned document.
MaxLines == 3

\* Most messages in the agent's reply.
MaxMsgs == 2

\* Most rows of a fact table.
MaxFacts == 3

\* ------------------------------------------------------------- tokens
\* The token of a run of three backticks.
Fence == "FENCE"

WsTokens == {" ", "\n"}

IsWs(c) == c \in WsTokens

\* re.IGNORECASE: a token and its other-case spelling are the same to a pattern.
Fold(c) ==
    CASE c = "select" -> "SELECT"
      [] c = "SQL" -> "sql"
      [] OTHER -> c

SetMin(S) == CHOOSE x \in S : \A y \in S : x <= y

SetMax(S) == CHOOSE x \in S : \A y \in S : x >= y

\* ------------------------------------------------------------- str.strip()
RECURSIVE LStrip(_)
LStrip(s) ==
    IF s = <<>> THEN <<>>
    ELSE IF IsWs(Head(s)) THEN LStrip(Tail(s)) ELSE s

RECURSIVE RStrip(_)
RStrip(s) ==
    IF s = <<>> THEN <<>>
    ELSE IF IsWs(s[Len(s)]) THEN RStrip(SubSeq(s, 1, Len(s) - 1)) ELSE s

Strip(s) == RStrip(LStrip(s))

\* ------------------------------------------------------------- the patterns
\* A greedy \s* (or \s+) from position p: the position after the whitespace.
RECURSIVE SkipWs(_, _)
SkipWs(t, p) ==
    IF p <= Len(t) /\ IsWs(t[p]) THEN SkipWs(t, p + 1) ELSE p

\* Whether \s* FENCE matches at position p.
ClosesAt(t, p) ==
    LET q == SkipWs(t, p) IN q <= Len(t) /\ t[q] = Fence

\* Mutant: a greedy (.*) in place of the lazy one runs to the last fence.
GreedyToFence(t, e) ==
    LET closers == {m \in e..Len(t) : t[m] = Fence}
    IN  IF closers = {} THEN 0 ELSE SetMax(closers)

\* The lazy (.*?) from position p followed by \s* FENCE: the first end e >= p
\* (the group is t[p..e-1]) at which \s* FENCE matches; 0 when none does.
RECURSIVE LazyToFence(_, _)
LazyToFence(t, e) ==
    IF e > Len(t) THEN 0
    ELSE IF ClosesAt(t, e) THEN e
    ELSE LazyToFence(t, e + 1)

NoMatch == [found |-> FALSE, group |-> <<>>]

Match(g) == [found |-> TRUE, group |-> g]

\* The pattern FENCE sql \s* (.*?) \s* FENCE tried at start position i.
SqlFenceAt(t, i) ==
    IF i + 1 <= Len(t) /\ t[i] = Fence /\ Fold(t[i + 1]) = "sql"
    THEN LET p == SkipWs(t, i + 2)
             e == LazyToFence(t, p)
         IN  IF e = 0 THEN NoMatch ELSE Match(SubSeq(t, p, e - 1))
    ELSE NoMatch

\* The pattern FENCE \s* (SELECT.*?) \s* FENCE tried at start position i.
SelectFenceAt(t, i) ==
    IF i <= Len(t) /\ t[i] = Fence
    THEN LET p == SkipWs(t, i + 1)
         IN  IF p <= Len(t) /\ Fold(t[p]) = "SELECT"
             THEN LET e == LazyToFence(t, p + 1)
                  IN  IF e = 0 THEN NoMatch ELSE Match(SubSeq(t, p, e - 1))
             ELSE NoMatch
    ELSE NoMatch

\* The lazy .*? followed by (?:;|$) from position e: the position of the
\* first ";" at or after e, or Len(t) when the text ends first.
RECURSIVE LazyToEnd(_, _)
LazyToEnd(t, e) ==
    IF e > Len(t) THEN Len(t)
    ELSE IF t[e] = ";" THEN e
    ELSE LazyToEnd(t, e + 1)

\* Mutant: one pattern for the four keywords, (SELECT|INSERT|UPDATE|DELETE).
InlineAtAnyKeyword(kw, t, i) ==
    IF /\ i + 1 <= Len(t)
       /\ Fold(t[i]) \in {"SELECT", "INSERT", "UPDATE", "DELETE"}
       /\ IsWs(t[i + 1])
    THEN [found |-> TRUE,
          group |-> SubSeq(t, i, LazyToEnd(t, SkipWs(t, i + 1)))]
    ELSE [found |-> FALSE, group |-> <<>>]

\* The pattern (KW \s+ .*? (?:;|$)) tried at start position i.
InlineAt(kw, t, i) ==
    IF i + 1 <= Len(t) /\ Fold(t[i]) = kw /\ IsWs(t[i + 1])
    THEN Match(SubSeq(t, i, LazyToEnd(t, SkipWs(t, i + 1))))
    ELSE NoMatch

\* sql_patterns, in the order of the list.
NPatterns == 6

\* Mutant: the inline SELECT pattern listed before the fence patterns.
PatternAtInlineFirst(k, t, i) ==
    CASE k = 1 -> InlineAt("SELECT", t, i)
      [] k = 2 -> SqlFenceAt(t, i)
      [] k = 3 -> SelectFenceAt(t, i)
      [] k = 4 -> InlineAt("INSERT", t, i)
      [] k = 5 -> InlineAt("UPDATE", t, i)
      [] k = 6 -> InlineAt("DELETE", t, i)

PatternAt(k, t, i) ==
    CASE k = 1 -> SqlFenceAt(t, i)
      [] k = 2 -> SelectFenceAt(t, i)
      [] k = 3 -> InlineAt("SELECT", t, i)
      [] k = 4 -> InlineAt("INSERT", t, i)
      [] k = 5 -> InlineAt("UPDATE", t, i)
      [] k = 6 -> InlineAt("DELETE", t, i)

\* re.findall(pattern, text)[0]: the match at the leftmost start position.
RECURSIVE FindFirstFrom(_, _, _)
FindFirstFrom(k, t, i) ==
    IF i > Len(t) THEN NoMatch
    ELSE IF PatternAt(k, t, i).found THEN PatternAt(k, t, i)
    ELSE FindFirstFrom(k, t, i + 1)

FindFirst(k, t) == FindFirstFrom(k, t, 1)

\* Mutant: a pattern whose first match is empty after trimming is passed over.
RECURSIVE CascadeSkipEmpty(_, _)
CascadeSkipEmpty(k, t) ==
    IF k > NPatterns THEN <<>>
    ELSE IF FindFirst(k, t).found /\ Strip(FindFirst(k, t).group) # <<>>
    THEN Strip(FindFirst(k, t).group)
    ELSE CascadeSkipEmpty(k + 1, t)

\* for pattern in sql_patterns: if matches: return matches[0].strip()
RECURSIVE CascadeFrom(_, _)
CascadeFrom(k, t) ==
    IF k > NPatterns THEN <<>>
    ELSE IF FindFirst(k, t).found THEN Strip(FindFirst(k, t).group)
    ELSE CascadeFrom(k + 1, t)

extract_sql_from_text(t) == CascadeFrom(1, t)

\* genie_client_databricks.py: the same six patterns and the same loop.
extract_sql_from_text_databricks(t) == CascadeFrom(1, t)

\* panda_pnl_insights_notebook.py: sql_patterns holds the first three
\* patterns only, the two fences and the inline SELECT.
NotebookPatterns == 3

RECURSIVE NotebookCascadeFrom(_, _)
NotebookCascadeFrom(k, t) ==
    IF k > NotebookPatterns THEN <<>>
    ELSE IF FindFirst(k, t).found THEN Strip(FindFirst(k, t).group)
    ELSE NotebookCascadeFrom(k + 1, t)

extract_sql_from_text_notebook(t) == NotebookCascadeFrom(1, t)


\* ------------------------------------------------------------- str helpers
\* s.count(c)
Count(s, c) == Cardinality({i \in DOMAIN s : s[i] = c})

\* c in s
Contains(s, c) == \E i \in DOMAIN s : s[i] = c

\* s.split(sep): the pieces between the separators, always at least one.
RECURSIVE SplitOn(_, _)
SplitOn(s, sep) ==
    IF ~Contains(s, sep) THEN <<s>>
    ELSE LET i == CHOOSE k \in DOMAIN s :
                      s[k] = sep /\ \A m \in 1..(k - 1) : s[m] # sep
         IN  <<SubSeq(s, 1, i - 1)>> \o SplitOn(SubSeq(s, i + 1, Len(s)), sep)

\* s.strip('|'): every leading and every trailing pipe goes.
RECURSIVE LStripPipes(_)
LStripPipes(s) ==
    IF s # <<>> /\ Head(s) = "|" THEN LStripPipes(Tail(s)) ELSE s

RECURSIVE RStripPipes(_)
RStripPipes(s) ==
    IF s # <<>> /\ s[Len(s)] = "|"
    THEN RStripPipes(SubSeq(s, 1, Len(s) - 1)) ELSE s

StripPipes(s) == RStripPipes(LStripPipes(s))

\* re.match(r'^[\|\s\-:]+$', line); the token "-" is a run of dashes and colons.
IsSeparatorLine(line) ==
    /\ line # <<>>
    /\ \A i \in DOMAIN line : line[i] = "|" \/ IsWs(line[i]) \/ line[i] = "-"

\* ------------------------------------------------------------- the line scan
\* Mutant: a blank or pipe-less line after the run is passed over and the
\* scan goes on to later lines.
RECURSIVE ScanPastTheEnd(_, _, _, _)
ScanPastTheEnd(lines, i, in_table, table_lines) ==
    IF i > Len(lines) THEN table_lines
    ELSE LET line == Strip(lines[i])
         IN  IF Contains(line, "|") /\ Count(line, "|") >= 2
             THEN ScanPastTheEnd(lines, i + 1, TRUE,
                                 IF ~IsSeparatorLine(line)
                                 THEN Append(table_lines, line)
                                 ELSE table_lines)
             ELSE ScanPastTheEnd(lines, i + 1, in_table, table_lines)

\* Mutant: a separator line is collected like any other candidate line.
RECURSIVE ScanKeepingSeparators(_, _, _, _)
ScanKeepingSeparators(lines, i, in_table, table_lines) ==
    IF i > Len(lines) THEN table_lines
    ELSE LET line == Strip(lines[i])
         IN  IF Contains(line, "|") /\ Count(line, "|") >= 2
             THEN ScanKeepingSeparators(lines, i + 1, TRUE,
                                        Append(table_lines, line))
             ELSE IF in_table /\ line = <<>> THEN table_lines
             ELSE IF in_table /\ ~Contains(line, "|") THEN table_lines
             ELSE ScanKeepingSeparators(lines, i + 1, in_table, table_lines)

\* The for loop over lines: table_lines when the loop ends or breaks.
RECURSIVE ScanFrom(_, _, _, _)
ScanFrom(lines, i, in_table, table_lines) ==
    IF i > Len(lines) THEN table_lines
    ELSE LET line == Strip(lines[i])
         IN  IF Contains(line, "|") /\ Count(line, "|") >= 2
             THEN ScanFrom(lines, i + 1, TRUE,
                           IF ~IsSeparatorLine(line)
                           THEN Append(table_lines, line)
                           ELSE table_lines)
             ELSE IF in_table /\ line = <<>> THEN table_lines
             ELSE IF in_table /\ ~Contains(line, "|") THEN table_lines
             ELSE ScanFrom(lines, i + 1, in_table, table_lines)

TableLines(t) == ScanFrom(SplitOn(t, "\n"), 1, FALSE, <<>>)

\* [cell.strip() for cell in line.strip('|').split('|')]
CellsOf(line) ==
    LET pieces == SplitOn(StripPipes(line), "|")
    IN  [k \in DOMAIN pieces |-> Strip(pieces[k])]

\* ','.join(f'"{cell}"' for cell in cells)
RECURSIVE CsvJoin(_)
CsvJoin(cells) ==
    IF cells = <<>> THEN <<>>
    ELSE LET quoted == <<"QUOTE">> \o Head(cells) \o <<"QUOTE">>
         IN  IF Len(cells) = 1 THEN quoted
             ELSE quoted \o <<",">> \o CsvJoin(Tail(cells))

CsvLines(table_lines) ==
    [k \in DOMAIN table_lines |-> CsvJoin(CellsOf(table_lines[k]))]

\* ------------------------------------------------------------- pd.read_csv
\* The tokenizer on one line of quoted fields: a comma outside quotes
\* ends a field, the quotes themselves are dropped.
RECURSIVE CsvFields(_, _, _, _)
CsvFields(line, i, in_quotes, field) ==
    IF i > Len(line) THEN <<field>>
    ELSE IF line[i] = "QUOTE"
    THEN CsvFields(line, i + 1, ~in_quotes, field)
    ELSE IF line[i] = "," /\ ~in_quotes
    THEN <<field>> \o CsvFields(line, i + 1, FALSE, <<>>)
    ELSE CsvFields(line, i + 1, in_quotes, Append(field, line[i]))

ParseCsvLine(line) == CsvFields(line, 1, FALSE, <<>>)

Digits == <<"0", "1", "2", "3", "4", "5", "6", "7", "8", "9">>

\* The header's names: an empty name becomes "Unnamed: <position>", the
\* k-th repeat of a name gets the suffix ".k".
MangledNames(header) ==
    [j \in DOMAIN header |->
        IF header[j] = <<>> THEN <<"Unnamed: ", Digits[j]>>
        ELSE LET k == Cardinality({m \in 1..(j - 1) : header[m] = header[j]})
             IN  IF k = 0 THEN header[j]
                 ELSE header[j] \o <<".", Digits[k + 1]>>]

\* Words read_csv takes for a number, and fields it takes for a missing value.
NumberWords == {"1", "2", "100", "120"}

NaWords == {"NA"}

IsNumberField(f) == Len(f) = 1 /\ f[1] \in NumberWords

IsNaField(f) == f = <<>> \/ (Len(f) = 1 /\ f[1] \in NaWords)

NaN == [k |-> "nan", v |-> <<>>]

Num(f) == [k |-> "num", v |-> f]

Str(f) == [k |-> "str", v |-> f]

\* Mutant: no type inference (dtype=str): every present field stays text.
ConvertColumnAsText(fields) ==
    [i \in DOMAIN fields |->
        IF IsNaField(fields[i]) THEN NaN ELSE Str(fields[i])]

\* One column's values: numbers when every present field is a number,
\* the fields as strings otherwise; a missing or empty field is NaN.
ConvertColumn(fields) ==
    LET numeric == \A i \in DOMAIN fields :
                       IsNaField(fields[i]) \/ IsNumberField(fields[i])
    IN  [i \in DOMAIN fields |->
            IF IsNaField(fields[i]) THEN NaN
            ELSE IF numeric THEN Num(fields[i])
            ELSE Str(fields[i])]

Max(a, b) == IF a >= b THEN a ELSE b

PadTo(rec, w) == [j \in 1..w |-> IF j <= Len(rec) THEN rec[j] ELSE <<>>]

EmptyDataFrame == [columns |-> <<>>, rows |-> <<>>, index |-> <<>>]

ParserError == [ok |-> FALSE, df |-> EmptyDataFrame]

\* pd.read_csv(StringIO(csv_text)) with its defaults: the first line is the
\* header; a first data line longer than the header makes its leading
\* fields the index; a later line longer than that raises ParserError; a
\* shorter line is padded with missing values.
read_csv(csv_lines) ==
    LET recs   == [i \in DOMAIN csv_lines |-> ParseCsvLine(csv_lines[i])]
        n      == Len(recs)
        header == recs[1]
        h      == Len(header)
        width  == Max(h, Len(recs[2]))
        lead   == width - h
        data   == [i \in 1..(n - 1) |-> PadTo(recs[i + 1], width)]
        cols   == [j \in 1..h |->
                      ConvertColumn([i \in 1..(n - 1) |-> data[i][lead + j]])]
    IN  IF \E i \in 3..n : Len(recs[i]) > width THEN ParserError
        ELSE [ok |-> TRUE,
              df |-> [columns |-> MangledNames(header),
                      rows    |-> [i \in 1..(n - 1) |->
                                      [j \in 1..h |-> cols[j][i]]],
                      index   |-> [i \in 1..(n - 1) |->
                                      SubSeq(data[i], 1, lead)]]]

\* df.columns.str.strip() and, for object columns, df[col].str.strip()
StripFrame(d) ==
    [columns |-> [j \in DOMAIN d.columns |-> Strip(d.columns[j])],
     rows    |-> [i \in DOMAIN d.rows |->
                     [j \in DOMAIN d.rows[i] |->
                         IF d.rows[i][j].k = "str"
                         THEN Str(Strip(d.rows[i][j].v))
                         ELSE d.rows[i][j]]],
     index   |-> d.index]

\* Mutant: one collected line is enough (len(table_lines) >= 1); a lone
\* header gives a frame with columns and no rows.
ParseTableFromOneLine(t) ==
    LET table_lines == TableLines(t)
    IN  IF Len(table_lines) >= 2
        THEN LET r == read_csv(CsvLines(table_lines))
             IN  IF r.ok THEN [ok |-> TRUE, df |-> StripFrame(r.df)]
                 ELSE r
        ELSE IF Len(table_lines) = 1
        THEN [ok |-> TRUE,
              df |-> [columns |-> MangledNames(CellsOf(table_lines[1])),
                      rows |-> <<>>, index |-> <<>>]]
        ELSE [ok |-> TRUE, df |-> EmptyDataFrame]

\* The body of the try block: the frame it returns, or the exception.
ParseTable(t) ==
    LET table_lines == TableLines(t)
    IN  IF Len(table_lines) >= 2
        THEN LET r == read_csv(CsvLines(table_lines))
             IN  IF r.ok THEN [ok |-> TRUE, df |-> StripFrame(r.df)]
                 ELSE r
        ELSE [ok |-> TRUE, df |-> EmptyDataFrame]

\* Mutant: no try/except around the parse: the exception gets out.
extract_data_uncaught(t) ==
    LET r == ParseTable(t)
    IN  [raised |-> ~r.ok, df |-> r.df]

\* try: ... except Exception: pass; return pd.DataFrame()
extract_data_from_text(t) ==
    LET r == ParseTable(t)
    IN  IF r.ok THEN [raised |-> FALSE, df |-> r.df]
        ELSE [raised |-> FALSE, df |-> EmptyDataFrame]

\* ------------------------------------------------------------- GenieResult
GenieResult(a, q, d) == [answer |-> a, sql |-> q, df |-> d]

NoResult == GenieResult(<<>>, <<>>, EmptyDataFrame)

NoTable == [columns |-> <<>>, rows |-> <<>>]

NoReply == [kind |-> "none", messages |-> <<>>, content |-> <<>>, err |-> ""]

\* ------------------------------------------------------------- ask_genie_structured
\* A message's content that is no string: a list of content blocks. It is
\* truthy, re.findall refuses it, and str() gives its repr.
Blocks == <<"BLOCKS">>

\* isinstance(c, str)
IsStr(c) == c # Blocks

\* str(c)
PyStr(c) == IF IsStr(c) THEN c ELSE <<"[{'type': 'text'}]">>

\* Mutant: the messages scanned from the first, not reversed.
RECURSIVE ContentFromFirst(_, _)
ContentFromFirst(messages, i) ==
    IF i = 0 THEN <<>>
    ELSE LET msg == messages[Len(messages) + 1 - i]
         IN  IF msg.kind = "dict" /\ msg.role = "assistant" /\ msg.content # <<>>
             THEN msg.content
             ELSE IF msg.kind = "object" THEN PyStr(msg.content)
             ELSE ContentFromFirst(messages, i - 1)

\* for msg in reversed(messages): the content of the last message that is
\* an assistant dict with content, or that is an object with a content
\* attribute (an AIMessage), whichever comes first from the end.
RECURSIVE ContentFrom(_, _)
ContentFrom(messages, i) ==
    IF i = 0 THEN <<>>
    ELSE LET msg == messages[i]
         IN  IF msg.kind = "dict" /\ msg.role = "assistant" /\ msg.content # <<>>
             THEN msg.content
             ELSE IF msg.kind = "object" THEN PyStr(msg.content)
             ELSE ContentFrom(messages, i - 1)

\* The content extracted from what agent.invoke returned.
ContentOf(r) ==
    IF r.kind = "dict" THEN ContentFrom(r.messages, Len(r.messages))
    ELSE IF r.kind = "object" THEN PyStr(r.content)
    ELSE <<>>

ErrorResult(msg) ==
    GenieResult(<<"Error calling Genie: ", msg>>, <<>>, EmptyDataFrame)

\* What a call gives: the local content, the result returned (NoResult when
\* an exception got out instead), whether one got out, and the calls made.
AskOutcome(c, res, exc, made) ==
    [content |-> c, result |-> res, raised |-> exc, calls |-> made]

\* An exception in the try block: the except clause returns the error
\* result; without the clause the exception gets out.
Except(c, msg, made, catch) ==
    IF catch THEN AskOutcome(c, ErrorResult(msg), FALSE, made)
    ELSE AskOutcome(c, NoResult, TRUE, made)

\* The body of ask_genie_structured, with the two guards it has: the
\* (if not content) return and the except clause.
AskBody(r, check_empty, catch) ==
    IF r.kind = "raise"
    THEN Except(<<>>, r.err, <<"invoke">>, catch)
    ELSE LET c == ContentOf(r)
         IN  IF check_empty /\ c = <<>>
             THEN AskOutcome(c, GenieResult(<<"No response from Genie">>,
                                            <<>>, EmptyDataFrame),
                             FALSE, <<"invoke">>)
             ELSE IF ~IsStr(c)
             THEN Except(c, "TypeError",
                         <<"invoke", "extract_sql_from_text">>, catch)
             ELSE LET q == extract_sql_from_text(c)
                      d == extract_data_from_text(c)
                      made == <<"invoke", "extract_sql_from_text",
                                "extract_data_from_text">>
                  IN  IF d.raised
                      THEN Except(c, "ParserError", made, catch)
                      ELSE AskOutcome(c, GenieResult(c, q, d.df), FALSE, made)

\* Mutant: the (if not content) return is missing.
ask_genie_without_sentinel(r) == AskBody(r, FALSE, TRUE)

\* Mutant: the except clause is missing.
ask_genie_uncaught(r) == AskBody(r, TRUE, FALSE)

\* The whole function, for one behaviour r of the agent.
ask_genie_structured(r) == AskBody(r, TRUE, TRUE)

\* ------------------------------------------------------------- health
\* ask_genie: the answer of the structured result.
ask_genie(r) ==
    LET out == ask_genie_structured(r)
    IN  [raised |-> out.raised, answer |-> out.result.answer]

\* get_genie_health_status: a status is a sequence of pieces of text;
\* str.startswith("error") is the test of its first piece.
Healthy == <<"healthy">>

ErrorStatus(msg) == <<"error: ", msg>>

get_genie_health_status(r) ==
    LET a == ask_genie(r)
    IN  IF a.raised THEN ErrorStatus("exception")
        ELSE IF a.answer # <<>> /\ Strip(a.answer) # <<>> THEN Healthy
        ELSE ErrorStatus("No response from Genie")

StartsWithError(status) == status # <<>> /\ Head(status) = "error: "

\* health_check: the entry of each service in the response.
GenieEntry(status) ==
    IF StartsWithError(status)
    THEN [status |-> "unhealthy", message |-> status]
    ELSE [status |-> "healthy", message |-> <<"Genie connection active">>]

DatabaseEntry(connected) ==
    IF connected
    THEN [status |-> "healthy", message |-> "Database connection active"]
    ELSE [status |-> "unhealthy", message |-> "Database connection test failed"]

LlmEntry(configured) ==
    IF configured
    THEN [status |-> "configured", message |-> "LLM endpoint"]
    ELSE [status |-> "warning", message |-> "LLM endpoint not configured"]

health_check(status, connected, configured) ==
    [status_code |-> 200,
     genie       |-> GenieEntry(status),
     database    |-> DatabaseEntry(connected),
     llm         |-> LlmEntry(configured)]


\* ------------------------------------------------------------- validate_analysis.py: numbers
Abs(x) == IF x < 0 THEN -x ELSE x

\* The value n/d of a division, kept exact; d > 0.
Ratio(n, d) == IF d > 0 THEN [n |-> n, d |-> d] ELSE [n |-> -n, d |-> -d]

Whole(k) == [n |-> k, d |-> 1]

Tenths(k) == [n |-> k, d |-> 10]

\* abs(x - e) for two ratios
Distance(x, e) == [n |-> Abs(x.n * e.d - e.n * x.d), d |-> x.d * e.d]

\* abs(x - e) < t for ratios x, e and a tolerance t
Within(x, e, t) ==
    LET dist == Distance(x, e)
    IN  dist.n <= (t.n * dist.d - 1) \div t.d

\* Mutant: no guard on plan: a division by zero gives an infinite value.
VariancePctUnguarded(actual, plan) ==
    IF plan > 0 THEN [n |-> (actual - plan) * 100, d |-> plan]
    ELSE [n |-> (plan - actual) * 100, d |-> -plan]

\* ((actual - plan) / plan * 100) if plan != 0 else 0
VariancePct(actual, plan) ==
    IF plan # 0 THEN Ratio((actual - plan) * 100, plan) ELSE Whole(0)

\* ------------------------------------------------------------- the fact table
FactColumns == {"Type", "LineItem", "Actual", "Plan"}

NoFacts == [columns |-> FactColumns, rows |-> <<>>]

\* self.df[col] raises KeyError when the table has no such column.
HasColumn(f, col) == col \in f.columns

\* A missing LineItem (NaN).
NaLineItem == <<"nan">>

\* self.df['LineItem'].str raises AttributeError unless the column holds
\* strings: a column of missing values only is a column of floats; the
\* column of a table with no row is a column of objects.
IsStrColumn(f) ==
    f.rows = <<>> \/ \E i \in DOMAIN f.rows : f.rows[i].LineItem # NaLineItem

\* Series.str.contains(fragment, na=False) on one value.
StrContains(line_item, fragment) ==
    line_item # NaLineItem /\ Contains(line_item, fragment)

\* line_item_filter = None
NoFilter == "None"

\* Whether building the filter raises.
FilterRaises(f, type_filter, line_item_filter) ==
    \/ ~HasColumn(f, "Type")
    \/ /\ line_item_filter # NoFilter
       /\ ~HasColumn(f, "LineItem") \/ ~IsStrColumn(f)

\* self.df[(self.df['Type'] == t) & (self.df['LineItem'].str.contains(l, na=False))]
Filter(f, type_filter, line_item_filter) ==
    SelectSeq(f.rows,
              LAMBDA r : /\ r.Type = type_filter
                         /\ \/ line_item_filter = NoFilter
                            \/ StrContains(r.LineItem, line_item_filter))

\* ------------------------------------------------------------- ValidationResult
ValidationResult(claim, expected_value, actual_value, variance, is_valid) ==
    [claim |-> claim, expected_value |-> expected_value,
     actual_value |-> actual_value, variance |-> variance,
     is_valid |-> is_valid]

Expected(actual, plan, tenths) ==
    [actual |-> actual, plan |-> plan, variance |-> Tenths(tenths)]

\* A method, or one block of a method, raised or returned its results.
Raise == [ok |-> FALSE, results |-> <<>>]

Return(results) == [ok |-> TRUE, results |-> results]

\* The blocks of a method (the methods of a run) in order: the first that
\* raises ends it; otherwise the results are appended in order.
RECURSIVE Collect(_)
Collect(blocks) ==
    IF blocks = <<>> THEN Return(<<>>)
    ELSE IF ~Head(blocks).ok THEN Raise
    ELSE LET rest == Collect(Tail(blocks))
         IN  IF rest.ok THEN Return(Head(blocks).results \o rest.results)
             ELSE Raise

\* One claim on actual and plan: the filter, (if not data.empty), the first
\* row's Actual and Plan (their absolute values in the promotions and the
\* employee meals methods), the variance, and a result valid when actual
\* and plan are within 1 of the expected.
DollarClaim(f, claim, type_filter, line_item_filter, expected, absolute) ==
    IF FilterRaises(f, type_filter, line_item_filter) THEN Raise
    ELSE LET data == Filter(f, type_filter, line_item_filter)
         IN  IF data = <<>> THEN Return(<<>>)
             ELSE IF ~HasColumn(f, "Actual") \/ ~HasColumn(f, "Plan") THEN Raise
             ELSE LET actual == IF absolute THEN Abs(data[1].Actual)
                                ELSE data[1].Actual
                      plan   == IF absolute THEN Abs(data[1].Plan)
                                ELSE data[1].Plan
                      variance_pct == VariancePct(actual, plan)
                  IN  Return(<<ValidationResult(
                          claim, expected,
                          [actual |-> actual, plan |-> plan,
                           variance |-> variance_pct],
                          Distance(variance_pct, expected.variance),
                          Abs(actual - expected.actual) < 1
                              /\ Abs(plan - expected.plan) < 1)>>)

\* One claim on the variance alone: valid when the variance is within the
\* tolerance of the expected.
VarianceClaim(f, claim, type_filter, line_item_filter, expected, tolerance) ==
    IF FilterRaises(f, type_filter, line_item_filter) THEN Raise
    ELSE LET data == Filter(f, type_filter, line_item_filter)
         IN  IF data = <<>> THEN Return(<<>>)
             ELSE IF ~HasColumn(f, "Actual") \/ ~HasColumn(f, "Plan") THEN Raise
             ELSE LET variance_pct == VariancePct(data[1].Actual, data[1].Plan)
                  IN  Return(<<ValidationResult(
                          claim, expected, variance_pct,
                          Distance(variance_pct, expected),
                          Within(variance_pct, expected, tolerance))>>)

validate_revenue_claims(f) ==
    Collect(<<
        DollarClaim(f, "Food Sales: $320,433 actual vs $341,386 plan (-6.1%)",
                    "Net Sales", "Sales_Food",
                    Expected(320433, 341386, -61), FALSE),
        DollarClaim(f, "Beverage Sales: $15,826 actual vs $19,442 plan (-18.6%)",
                    "Net Sales", "Sales_Beverage",
                    Expected(15826, 19442, -186), FALSE),
        VarianceClaim(f, "Retail Sales variance: -30.8%",
                      "Net Sales", "Sales_Retail", Tenths(-308), Whole(1)) >>)

validate_profitability_claims(f) ==
    Collect(<<
        DollarClaim(f, "Restaurant Contribution: $562,065 vs $598,443 (-6.1%)",
                    "Restaurant Contribution", NoFilter,
                    Expected(562065, 598443, -61), FALSE),
        VarianceClaim(f, "Controllable Profit variance: -6.6%",
                      "Controllable Profit", NoFilter,
                      Tenths(-66), Tenths(1)) >>)

validate_promotional_claims(f) ==
    Collect(<<
        DollarClaim(f, "Sales Promotions: $19,458 vs $14,164 (+37.4%)",
                    "Net Sales", "Sales_Promotion",
                    Expected(19458, 14164, 374), TRUE) >>)

validate_employee_meals_claims(f) ==
    Collect(<<
        DollarClaim(f, "Employee Meals: $5,882 vs $10,454 (-43.7%)",
                    "Net Sales", "Employee_Meals",
                    Expected(5882, 10454, -437), TRUE) >>)

\* financial_claims
FinancialClaims ==
    << [metric |-> "Food Sales", type_filter |-> "Net Sales",
        line_item_filter |-> "Sales_Food",
        expected |-> Expected(320433, 341386, -61)],
       [metric |-> "Beverage Sales", type_filter |-> "Net Sales",
        line_item_filter |-> "Sales_Beverage",
        expected |-> Expected(15826, 19442, -186)],
       [metric |-> "Controllable Profit", type_filter |-> "Controllable Profit",
        line_item_filter |-> NoFilter,
        expected |-> Expected(539814, 577730, -66)] >>

\* f"{claim['metric']} summary metrics"
SummaryClaimName(metric) ==
    CASE metric = "Food Sales" -> "Food Sales summary metrics"
      [] metric = "Beverage Sales" -> "Beverage Sales summary metrics"
      [] metric = "Controllable Profit" -> "Controllable Profit summary metrics"

\* Mutant: the variance is left out of the decision.
SummaryIsValidDollarsOnly(actual, plan, variance_pct, expected) ==
    /\ Abs(actual - expected.actual) < 1
    /\ Abs(plan - expected.plan) < 1

\* Mutant: actual and plan of a summary metric may be off by one dollar.
SummaryIsValidWithinTwo(actual, plan, variance_pct, expected) ==
    /\ Abs(actual - expected.actual) < 2
    /\ Abs(plan - expected.plan) < 2
    /\ Within(variance_pct, expected.variance, [n |-> 1, d |-> 2])

\* is_valid of a summary metric: actual and plan within 1, variance within 0.5.
SummaryIsValid(actual, plan, variance_pct, expected) ==
    /\ Abs(actual - expected.actual) < 1
    /\ Abs(plan - expected.plan) < 1
    /\ Within(variance_pct, expected.variance, [n |-> 1, d |-> 2])

\* The body of the loop of validate_summary_metrics for one claim: the
\* variance is computed from the row's values, then a negative actual
\* makes actual and plan their absolute values.
SummaryClaim(f, claim) ==
    IF FilterRaises(f, claim.type_filter, claim.line_item_filter) THEN Raise
    ELSE LET data == Filter(f, claim.type_filter, claim.line_item_filter)
         IN  IF data = <<>> THEN Return(<<>>)
             ELSE IF ~HasColumn(f, "Actual") \/ ~HasColumn(f, "Plan") THEN Raise
             ELSE LET variance_pct == VariancePct(data[1].Actual, data[1].Plan)
                      negative == data[1].Actual < 0
                      actual == IF negative THEN Abs(data[1].Actual)
                                ELSE data[1].Actual
                      plan   == IF negative THEN Abs(data[1].Plan)
                                ELSE data[1].Plan
                  IN  Return(<<ValidationResult(
                          SummaryClaimName(claim.metric),
                          claim.expected,
                          [actual |-> actual, plan |-> plan,
                           variance |-> variance_pct],
                          Distance(variance_pct, claim.expected.variance),
                          SummaryIsValid(actual, plan, variance_pct,
                                         claim.expected))>>)

validate_summary_metrics(f) ==
    Collect([k \in DOMAIN FinancialClaims |-> SummaryClaim(f, FinancialClaims[k])])

\* ------------------------------------------------------------- run_all_validations
NoSummary ==
    [total_validations |-> 0, valid_count |-> 0, invalid_count |-> 0,
     accuracy_rate |-> Whole(0)]

\* sum(1 for r in all_results if r.is_valid)
ValidCount(all_results) ==
    Cardinality({i \in DOMAIN all_results : all_results[i].is_valid})

\* Mutant: every result is counted as valid.
SummarizeCountingAll(all_results) ==
    LET total_validations == Len(all_results)
        valid_count == total_validations
    IN  [total_validations |-> total_validations,
         valid_count       |-> valid_count,
         invalid_count     |-> total_validations - valid_count,
         accuracy_rate     |-> IF total_validations > 0
                               THEN Ratio(valid_count * 100, total_validations)
                               ELSE Whole(0)]

\* The summary statistics.
Summarize(all_results) ==
    LET total_validations == Len(all_results)
        valid_count == ValidCount(all_results)
    IN  [total_validations |-> total_validations,
         valid_count       |-> valid_count,
         invalid_count     |-> total_validations - valid_count,
         accuracy_rate     |-> IF total_validations > 0
                               THEN Ratio(valid_count * 100, total_validations)
                               ELSE Whole(0)]

\* The line printed for the accuracy rate.
Band(accuracy_rate) ==
    IF accuracy_rate.n >= 95 * accuracy_rate.d THEN "EXCELLENT"
    ELSE IF accuracy_rate.n >= 85 * accuracy_rate.d THEN "GOOD"
    ELSE IF accuracy_rate.n >= 70 * accuracy_rate.d THEN "FAIR"
    ELSE "POOR"

\* The whole method: the five categories in order, the results kept in
\* self.validation_results, the summary, the line printed; an exception
\* of a category gets out before anything is kept.
run_all_validations(f) ==
    LET all == Collect(<<validate_revenue_claims(f),
                         validate_profitability_claims(f),
                         validate_promotional_claims(f),
                         validate_employee_meals_claims(f),
                         validate_summary_metrics(f)>>)
    IN  IF all.ok
        THEN [raised |-> FALSE, validation_results |-> all.results,
              summary |-> Summarize(all.results),
              band |-> Band(Summarize(all.results).accuracy_rate)]
        ELSE [raised |-> TRUE, validation_results |-> <<>>,
              summary |-> NoSummary, band |-> ""]

\* The validator's state before a run.
ValidatorIdle ==
    /\ facts = NoFacts
    /\ outcomes = <<>>
    /\ summary = NoSummary
    /\ band = ""



\* ------------------------------------------------------------- db_utils_local.py
\* A table as to_pandas gives it: a cell is a number or is missing; in a
\* column of dtype float64 a missing cell is NaN and the numbers are numpy
\* floats, in a column of dtype object it is None and the numbers are
\* Python numbers (Decimal).
Present(n) == [k |-> "num", n |-> n]

Missing == [k |-> "missing", n |-> 0]

Frame(columns, rows, dtype) ==
    [columns |-> columns, rows |-> rows, dtype |-> dtype]

\* pd.DataFrame()
EmptyFrame == Frame(<<>>, <<>>, "object")

\* DataFrame.empty: an axis of length 0.
IsEmptyFrame(d) == d.columns = <<>> \/ d.rows = <<>>

\* The warehouse as a query meets it: the three environment variables set
\* or not, the connection and the execution succeeding or not, and the
\* table the query selects.
Warehouse(unset, connect, execute, table) ==
    [unset |-> unset, connect |-> connect, execute |-> execute,
     table |-> table]

Working(table) == Warehouse({}, "ok", "ok", table)

EnvNames == <<"DB_HOST", "DB_PAT", "DATABRICKS_WAREHOUSE_ID">>

\* The ways a warehouse fails: a variable is not set, sql.connect raises,
\* cursor.execute raises.
Broken ==
    {Warehouse({EnvNames[i]}, "ok", "ok", EmptyFrame) : i \in DOMAIN EnvNames}
    \cup {Warehouse({}, "error", "ok", EmptyFrame),
          Warehouse({}, "ok", "error", EmptyFrame)}

Opened == [ok |-> TRUE, error |-> ""]

Refused(msg) == [ok |-> FALSE, error |-> msg]

\* get_connection: ValueError for the first variable not set, else what
\* sql.connect does.
get_connection(w) ==
    IF \E i \in DOMAIN EnvNames : EnvNames[i] \in w.unset
    THEN Refused(EnvNames[SetMin({i \in DOMAIN EnvNames :
                                     EnvNames[i] \in w.unset})])
    ELSE IF w.connect = "error" THEN Refused("connect")
    ELSE Opened

\* What a call of sql_query gives: the table returned, or the exception
\* that got out.
QueryOutcome(frame, exc, msg) == [df |-> frame, raised |-> exc, error |-> msg]

\* An exception in the try block of sql_query: the except clause returns
\* an empty table; without the clause the exception gets out.
QueryFailed(msg, catch) ==
    IF catch THEN QueryOutcome(EmptyFrame, FALSE, "")
    ELSE QueryOutcome(EmptyFrame, TRUE, msg)

SqlBody(w, catch) ==
    IF ~get_connection(w).ok THEN QueryFailed(get_connection(w).error, catch)
    ELSE IF w.execute = "error" THEN QueryFailed("execute", catch)
    ELSE QueryOutcome(w.table, FALSE, "")

\* Mutant: sql_query without its except clause.
sql_query_uncaught(w) == SqlBody(w, FALSE)

sql_query(w) == SqlBody(w, TRUE)

\* get_monthly_trends: the query's table; an exception gives an empty one.
get_monthly_trends(w) ==
    IF sql_query(w).raised THEN QueryOutcome(EmptyFrame, FALSE, "")
    ELSE sql_query(w)

\* ------------------------------------------------------------- app.py
\* A float of a response body: a finite number (kept as a ratio), NaN,
\* infinity; None where a field holds no number.
Fl(r) == [k |-> "num", r |-> r]

FlNaN == [k |-> "nan", r |-> Whole(0)]

FlInf == [k |-> "inf", r |-> Whole(0)]

None == [k |-> "none", r |-> Whole(0)]

Finite(x) == x.k \in {"num", "none"}

\* A response: the HTTP status, the status field of the body or "error",
\* the message or the detail, and the rest of the body.
ApiResponse(status_code, status, message, body) ==
    [status_code |-> status_code, status |-> status, message |-> message,
     body |-> body]

NoBody == [kind |-> "none", floats |-> <<>>]

\* raise HTTPException(status_code, detail)
HttpError(status_code, detail) ==
    ApiResponse(status_code, "error", detail, NoBody)

\* str(HTTPException(status_code, detail))
HttpErrorText(code_text, detail) == <<code_text, ": ">> \o detail

\* JSONResponse.render: json.dumps(content, allow_nan=False) raises
\* ValueError on NaN and on infinity, and the server answers 500.
RenderJson(resp) ==
    IF \A i \in DOMAIN resp.body.floats : Finite(resp.body.floats[i])
    THEN resp
    ELSE HttpError(500, <<"Internal Server Error">>)

\* The value of a cell in a body.
CellValue(cell, dtype) ==
    IF cell.k = "num" THEN Fl(Whole(cell.n))
    ELSE IF dtype = "float64" THEN FlNaN
    ELSE None

RECURSIVE Flatten(_)
Flatten(rows) ==
    IF rows = <<>> THEN <<>> ELSE Head(rows) \o Flatten(Tail(rows))

\* df_to_response: the columns whose lowered name starts with "unnamed" or
\* "index", or is "level_0", are dropped; the rows are those of the rest.
IsIndexColumn(col) == col \in {"Unnamed: 0", "index", "level_0"}

NoData == [kind |-> "data", columns |-> <<>>, rows |-> <<>>,
           shape |-> <<0, 0>>, floats |-> <<>>]

df_to_response(d) ==
    IF IsEmptyFrame(d) THEN NoData
    ELSE LET at   == SelectSeq([j \in DOMAIN d.columns |-> j],
                               LAMBDA j : ~IsIndexColumn(d.columns[j]))
             rows == [i \in DOMAIN d.rows |->
                         [k \in DOMAIN at |->
                             CellValue(d.rows[i][at[k]], d.dtype)]]
         IN  [kind |-> "data",
              columns |-> [k \in DOMAIN at |-> d.columns[at[k]]],
              rows |-> rows,
              shape |-> <<Len(d.rows), Len(at)>>,
              floats |-> Flatten(rows)]

\* POST /api/db/query
execute_sql_query(q) ==
    IF q.raised
    THEN HttpError(500, <<"SQL query failed: ", q.error>>)
    ELSE IF IsEmptyFrame(q.df)
    THEN ApiResponse(200, "success",
             <<"Query executed successfully but returned no results">>,
             NoData)
    ELSE RenderJson(ApiResponse(200, "success",
             <<"Query executed successfully. Returned ", "rows">>,
             df_to_response(q.df)))
\* GET /api/analytics/kpis
Kpi(name, value, change, period) ==
    [name |-> name, value |-> value, change |-> change, period |-> period]

DemoKpis ==
    << Kpi("Revenue", Fl(Whole(2845000)), Fl(Tenths(52)), "vs last month"),
       Kpi("EBITDA Margin", Fl(Tenths(185)), Fl(Tenths(-8)), "vs last month"),
       Kpi("Labor %", Fl(Tenths(282)), Fl(Tenths(12)), "vs target"),
       Kpi("Transactions", Fl(Whole(156789)), Fl(Tenths(31)), "vs last month") >>

\* {"status": "success", "kpis": [kpi.model_dump() ...], "message": ...}
KpiResponse(kpis, message) ==
    ApiResponse(200, "success", message,
        [kind |-> "kpis", kpis |-> kpis,
         floats |-> [i \in DOMAIN kpis |-> kpis[i].value]
                    \o [i \in DOMAIN kpis |-> kpis[i].change]])

\* row.get(col, default) on a row of the table.
Get(d, row, col, default) ==
    IF \E j \in DOMAIN d.columns : d.columns[j] = col
    THEN CellValue(row[CHOOSE j \in DOMAIN d.columns : d.columns[j] = col],
                   d.dtype)
    ELSE Fl(Whole(default))

\* ((latest - previous) / previous) * 100: TypeError on None; NaN when an
\* operand is NaN; on a divisor 0 numpy floats give infinity (NaN for 0/0)
\* and Python numbers raise.
RevenueChange(l, p, q, dtype) ==
    IF l.k = "none" \/ p.k = "none" \/ q.k = "none"
    THEN [ok |-> FALSE, value |-> None]
    ELSE IF l.k = "nan" \/ p.k = "nan" \/ q.k = "nan"
    THEN [ok |-> TRUE, value |-> FlNaN]
    ELSE IF q.r.n = 0
    THEN IF dtype # "float64" THEN [ok |-> FALSE, value |-> None]
         ELSE IF l.r.n = p.r.n THEN [ok |-> TRUE, value |-> FlNaN]
         ELSE [ok |-> TRUE, value |-> FlInf]
    ELSE [ok |-> TRUE,
          value |-> Fl(Ratio((l.r.n - p.r.n) * 100, q.r.n))]

\* The else branch: the KPIs of the last row, the change of the revenue
\* against the row before it; KPIData refuses a value of None.
Calculated(d) ==
    LET latest   == d.rows[Len(d.rows)]
        revenue  == Get(d, latest, "total_revenue_sum", 0)
        ebitda   == Get(d, latest, "ebitda_margin_pct", 0)
        labor    == Get(d, latest, "labor_pct_of_sales", 0)
        trans    == Get(d, latest, "transactions_sum", 0)
        change   == IF Len(d.rows) > 1
                       /\ \E j \in DOMAIN d.columns :
                              d.columns[j] = "total_revenue_sum"
                    THEN LET previous == d.rows[Len(d.rows) - 1]
                         IN  RevenueChange(
                                 revenue,
                                 Get(d, previous, "total_revenue_sum", 0),
                                 Get(d, previous, "total_revenue_sum", 1),
                                 d.dtype)
                    ELSE [ok |-> TRUE, value |-> Fl(Whole(0))]
    IN  IF ~change.ok \/ \E x \in {revenue, ebitda, labor, trans} : x.k = "none"
        THEN [ok |-> FALSE, kpis |-> <<>>]
        ELSE [ok |-> TRUE,
              kpis |-> << Kpi("Revenue", revenue, change.value, "vs last month"),
                          Kpi("EBITDA Margin", ebitda, Fl(Whole(0)), "vs last month"),
                          Kpi("Labor %", labor, Fl(Whole(0)), "vs target"),
                          Kpi("Transactions", trans, Fl(Whole(0)), "vs last month") >>]

\* The handler, for what get_monthly_trends gave it: a table, or an
\* exception.
get_key_metrics(trends) ==
    IF trends.raised
    THEN RenderJson(KpiResponse(DemoKpis,
                        <<"Using demo KPIs due to data access issue">>))
    ELSE IF IsEmptyFrame(trends.df)
    THEN RenderJson(KpiResponse(DemoKpis, <<"KPIs calculated successfully">>))
    ELSE IF Calculated(trends.df).ok
    THEN RenderJson(KpiResponse(Calculated(trends.df).kpis,
                        <<"KPIs calculated successfully">>))
    ELSE RenderJson(KpiResponse(DemoKpis,
                        <<"Using demo KPIs due to data access issue">>))

\* POST /api/data/upload: the file's name ends with a suffix or there is
\* none (filename is None), and reading the file succeeds or raises.
Supported == {".csv", ".xlsx", ".xls"}

UploadFile(named, suffix, read) ==
    [named |-> named, suffix |-> suffix, read |-> read]

\* except Exception as e: raise HTTPException(500, "File upload failed: ...")
UploadFailed(msg) == HttpError(500, <<"File upload failed: ">> \o msg)

upload_data(file) ==
    IF ~file.named THEN UploadFailed(<<"AttributeError">>)
    ELSE IF file.suffix \notin Supported
    THEN UploadFailed(HttpErrorText("400",
             <<"Only CSV and Excel files are supported">>))
    ELSE IF file.read = "error" THEN UploadFailed(<<"read">>)
    ELSE ApiResponse(200, "success", <<"File uploaded successfully">>,
             [kind |-> "file_info", suffix |-> file.suffix, floats |-> <<>>])

\* The callers' state before any of them has run.
NoCopies == [databricks |-> <<>>, notebook |-> <<>>]

NoRuns == <<>>

NoRequest == [endpoint |-> "none"]

NoHttpResponse == [status_code |-> 0]

ServiceIdle ==
    /\ copies = NoCopies
    /\ runs = NoRuns
    /\ kept = <<>>
    /\ health = <<>>
    /\ request = NoRequest
    /\ response = NoHttpResponse

\* ------------------------------------------------------------- inputs
SqlAlphabet ==
    {Fence, "sql", "SELECT", "select", "INSERT", "UPDATE", "DELETE",
     " ", ";", "x"}

\* Markdown rendering of a table: header, separator line, data rows.
RECURSIVE RenderCells(_)
RenderCells(cells) ==
    IF cells = <<>> THEN <<>>
    ELSE <<" ">> \o Head(cells) \o <<" ", "|">> \o RenderCells(Tail(cells))

RenderRow(cells) == <<"|">> \o RenderCells(cells)

RECURSIVE RenderDashes(_)
RenderDashes(n) ==
    IF n = 0 THEN <<>> ELSE <<"-", "|">> \o RenderDashes(n - 1)

SeparatorRow(n) == <<"|">> \o RenderDashes(n)

RECURSIVE JoinLines(_)
JoinLines(lines) ==
    IF lines = <<>> THEN <<>>
    ELSE IF Len(lines) = 1 THEN Head(lines)
    ELSE Head(lines) \o <<"\n">> \o JoinLines(Tail(lines))

Render(T) ==
    JoinLines(<<RenderRow(T.columns), SeparatorRow(Len(T.columns))>>
              \o [i \in DOMAIN T.rows |-> RenderRow(T.rows[i])])

ColNames == <<<<"Type">>, <<"Actual">>, <<"Plan">>, <<"Group">>>>

CellWords == {<<>>, <<"-">>, <<"Food">>, <<"100">>}

\* A table of c columns and n data rows with the given cells.
TableOf(c, cells) == [columns |-> SubSeq(ColNames, 1, c), rows |-> cells]

\* The table of the specification's scenario B.
ScenarioB ==
    [columns |-> SubSeq(ColNames, 1, 3),
     rows    |-> << << <<"Food">>, <<"100">>, <<"120">> >> >>]

\* Lines of a scanned document: blank, prose, prose with one pipe, a
\* separator line, and piped rows of one to MaxCols cells.
RowLines ==
    UNION {{RenderRow(cells) : cells \in [1..c -> {<<"a">>, <<"1">>}]} :
           c \in 1..MaxCols}

LineSet == {<<>>, <<"x">>, <<"x", "|", "x">>, SeparatorRow(1)} \cup RowLines

\* Rows written with a doubled pipe at an edge: an empty first or last
\* cell with no blank in it.
EdgeLines == {<<"|", "|", "1", "|">>, <<"|", "a", "|", "|">>}

\* What can follow a block: a blank line, prose, a rule of dashes, prose
\* with one pipe.
Enders == {<<>>, <<"x">>, <<"-">>, <<"x", "|", "x">>}

\* A document of two blocks: two lines, a line after them, a later row.
BlockLines == RowLines \cup EdgeLines \cup {SeparatorRow(1)}

LaterRows == {RenderRow(<<<<"a">>>>), RenderRow(<<<<"1">>>>)}


SqlFenceText == <<Fence, "sql", "\n", "SELECT", " ", "x", "\n", Fence>>

\* A table whose second data line has more cells than the lines before it.
RaggedTableText ==
    JoinLines(<<RenderRow(<<<<"a">>>>), RenderRow(<<<<"a">>>>),
                RenderRow(<<<<"a">>, <<"1">>>>)>>)

AskTexts ==
    {<<>>, <<"x">>, SqlFenceText, Render(ScenarioB),
     SqlFenceText \o <<"\n">> \o Render(ScenarioB),
     <<"SELECT", " ", "x", ";">>, <<" ">>,
     SqlFenceText \o <<"\n">> \o RaggedTableText}

\* A content: a text, or a list of content blocks.
Contents == AskTexts \cup {Blocks}

Messages ==
    [kind : {"dict"}, role : {"assistant", "user"}, content : Contents]
    \cup [kind : {"object"}, role : {"ai"}, content : Contents]
    \cup [kind : {"plain"}, role : {"none"}, content : {<<>>}]

\* What agent.invoke does: it raises, or returns a dict of messages, a
\* message object, or some other object.
RaisedReply == [kind |-> "raise", messages |-> <<>>, content |-> <<>>, err |-> "timeout"]

OtherReply == [kind |-> "other", messages |-> <<>>, content |-> <<>>, err |-> ""]

ObjectReply(c) == [kind |-> "object", messages |-> <<>>, content |-> c, err |-> ""]

DictReply(m) == [kind |-> "dict", messages |-> m, content |-> <<>>, err |-> ""]

\* ------------------------------------------------------------- SQL extraction
InitSql ==
    /\ \E n \in 0..MaxLen : text \in [1..n -> SqlAlphabet]
    /\ pc = "start"
    /\ sql = <<>>
    /\ df = EmptyDataFrame
    /\ raised = FALSE
    /\ tbl = NoTable
    /\ reply = NoReply
    /\ content = <<>>
    /\ result = NoResult
    /\ calls = <<>>
    /\ ValidatorIdle
    /\ ServiceIdle

ExtractSql ==
    /\ pc = "start"
    /\ sql' = extract_sql_from_text(text)
    /\ pc' = "sql_done"
    /\ UNCHANGED <<text, df, raised, tbl, reply, content, result, calls,
                   facts, outcomes, summary, band, serviceVars>>

NextSql == ExtractSql

SpecSql == InitSql /\ [][NextSql]_vars

\* ------------------------------------------------------------- the copies
\* The same text handed to each copy of extract_sql_from_text.
ExtractSqlCopies ==
    /\ pc = "start"
    /\ sql' = extract_sql_from_text(text)
    /\ copies' = [databricks |-> extract_sql_from_text_databricks(text),
                  notebook   |-> extract_sql_from_text_notebook(text)]
    /\ pc' = "copies_done"
    /\ UNCHANGED <<text, df, raised, tbl, reply, content, result, calls,
                   facts, outcomes, summary, band,
                   runs, kept, health, request, response>>

NextCopies == ExtractSqlCopies

SpecCopies == InitSql /\ [][NextCopies]_vars


\* ------------------------------------------------------------- table extraction
InitData ==
    /\ \/ /\ \/ tbl = ScenarioB
             \/ \E c \in 1..MaxCols : \E n \in 1..MaxRows :
                    \E cells \in [1..n -> [1..c -> CellWords]] :
                        tbl = TableOf(c, cells)
          /\ text = Render(tbl)
       \/ /\ tbl = NoTable
          /\ \E n \in 0..MaxLines : \E lines \in [1..n -> LineSet] :
                 text = JoinLines(lines)
    /\ pc = "start"
    /\ sql = <<>>
    /\ df = EmptyDataFrame
    /\ raised = FALSE
    /\ reply = NoReply
    /\ content = <<>>
    /\ result = NoResult
    /\ calls = <<>>
    /\ ValidatorIdle
    /\ ServiceIdle

ExtractData ==
    /\ pc = "start"
    /\ LET r == extract_data_from_text(text)
       IN  df' = r.df /\ raised' = r.raised
    /\ pc' = "data_done"
    /\ UNCHANGED <<text, sql, tbl, reply, content, result, calls,
                   facts, outcomes, summary, band, serviceVars>>

NextData == ExtractData

SpecData == InitData /\ [][NextData]_vars

\* ------------------------------------------------------------- the line scan alone
\* Documents that are no rendering of a table: lines of LineSet, and
\* documents of two blocks.
InitScan ==
    /\ \/ \E n \in 0..MaxLines : \E lines \in [1..n -> LineSet] :
              text = JoinLines(lines)
       \/ \E a \in BlockLines : \E b \in BlockLines :
              \E e \in Enders : \E c \in LaterRows :
                  text = JoinLines(<<a, b, e, c>>)
    /\ tbl = NoTable
    /\ pc = "start"
    /\ sql = <<>>
    /\ df = EmptyDataFrame
    /\ raised = FALSE
    /\ reply = NoReply
    /\ content = <<>>
    /\ result = NoResult
    /\ calls = <<>>
    /\ ValidatorIdle
    /\ ServiceIdle

SpecScan == InitScan /\ [][NextData]_vars

\* ------------------------------------------------------------- asking Genie
InitAsk ==
    /\ text = <<>>
    /\ pc = "start"
    /\ sql = <<>>
    /\ df = EmptyDataFrame
    /\ raised = FALSE
    /\ tbl = NoTable
    /\ reply = NoReply
    /\ content = <<>>
    /\ result = NoResult
    /\ calls = <<>>
    /\ ValidatorIdle
    /\ ServiceIdle

\* One call of ask_genie_structured, for one behaviour r of the agent.
Ask(r) ==
    /\ pc = "start"
    /\ reply' = r
    /\ LET out == ask_genie_structured(r)
       IN  /\ content' = out.content
           /\ result' = out.result
           /\ raised' = out.raised
           /\ calls' = out.calls
    /\ pc' = "ask_done"
    /\ UNCHANGED <<text, sql, df, tbl, facts, outcomes, summary, band,
                   serviceVars>>

AskGenie ==
    \/ Ask(RaisedReply)
    \/ Ask(OtherReply)
    \/ \E c \in Contents : Ask(ObjectReply(c))
    \/ \E n \in 0..MaxMsgs : \E m \in [1..n -> Messages] : Ask(DictReply(m))

NextAsk == AskGenie

SpecAsk == InitAsk /\ [][NextAsk]_vars

\* ------------------------------------------------------------- GET /api/health
\* One request of /api/health, for one behaviour r of the agent, one
\* outcome of test_connection and one setting of LLM_ENDPOINT_NAME.
Health(r) ==
    /\ pc = "start"
    /\ reply' = r
    /\ LET out == ask_genie_structured(r)
       IN  /\ content' = out.content
           /\ result' = out.result
           /\ raised' = out.raised
           /\ calls' = out.calls
    /\ health' = get_genie_health_status(r)
    /\ request' = [endpoint |-> "/api/health"]
    /\ \E connected \in BOOLEAN : \E configured \in BOOLEAN :
           response' = health_check(health', connected, configured)
    /\ pc' = "health_done"
    /\ UNCHANGED <<text, sql, df, tbl, facts, outcomes, summary, band,
                   copies, runs, kept>>

HealthCheck ==
    \/ Health(RaisedReply)
    \/ Health(OtherReply)
    \/ \E c \in Contents : Health(ObjectReply(c))
    \/ \E n \in 0..MaxMsgs : \E m \in [1..n -> Messages] : Health(DictReply(m))

NextHealth == HealthCheck

SpecHealth == InitAsk /\ [][NextHealth]_vars

\* ------------------------------------------------------------- the endpoints
InitApi ==
    /\ text = <<>>
    /\ pc = "start"
    /\ sql = <<>>
    /\ df = EmptyDataFrame
    /\ raised = FALSE
    /\ tbl = NoTable
    /\ reply = NoReply
    /\ content = <<>>
    /\ result = NoResult
    /\ calls = <<>>
    /\ ValidatorIdle
    /\ ServiceIdle

Suffixes == Supported \cup {".txt", ".CSV", ""}

\* One request of POST /api/data/upload.
Upload ==
    /\ pc = "start"
    /\ \E named \in BOOLEAN : \E suffix \in Suffixes :
           \E read \in {"ok", "error"} :
               LET file == UploadFile(named, IF named THEN suffix ELSE "", read)
               IN  /\ request' = [endpoint |-> "/api/data/upload",
                                  input |-> file]
                   /\ response' = upload_data(file)
    /\ pc' = "upload_done"
    /\ UNCHANGED <<text, sql, df, raised, tbl, reply, content, result, calls,
                   facts, outcomes, summary, band, copies, runs, kept, health>>

\* The columns the query of get_monthly_trends selects that the KPIs read.
TrendColumns ==
    <<"total_revenue_sum", "ebitda_margin_pct", "labor_pct_of_sales">>

TrendCells == {Present(0), Present(100), Missing}

Dtypes == {"float64", "object"}

\* What get_monthly_trends raised when it let an exception out.
TrendsRaised == QueryOutcome(EmptyFrame, TRUE, "trends")

\* One request of GET /api/analytics/kpis.
KeyMetrics(trends) ==
    /\ pc = "start"
    /\ request' = [endpoint |-> "/api/analytics/kpis", input |-> trends]
    /\ response' = get_key_metrics(trends)
    /\ pc' = "kpis_done"
    /\ UNCHANGED <<text, sql, df, raised, tbl, reply, content, result, calls,
                   facts, outcomes, summary, band, copies, runs, kept, health>>

GetKeyMetrics ==
    \/ KeyMetrics(TrendsRaised)
    \/ \E w \in Broken : KeyMetrics(get_monthly_trends(w))
    \/ \E dtype \in Dtypes : \E n \in 0..MaxRows :
           \E rows \in [1..n -> [1..Len(TrendColumns) -> TrendCells]] :
               KeyMetrics(get_monthly_trends(
                              Working(Frame(TrendColumns, rows, dtype))))

QueryColumns == <<"store", "Unnamed: 0", "revenue">>

QueryCells == {Present(1), Missing}

\* One request of POST /api/db/query against warehouse w.
Query(w) ==
    /\ pc = "start"
    /\ request' = [endpoint |-> "/api/db/query", input |-> w]
    /\ raised' = sql_query(w).raised
    /\ response' = execute_sql_query(sql_query(w))
    /\ pc' = "query_done"
    /\ UNCHANGED <<text, sql, df, tbl, reply, content, result, calls,
                   facts, outcomes, summary, band, copies, runs, kept, health>>

ExecuteSqlQuery ==
    \/ \E w \in Broken : Query(w)
    \/ \E dtype \in Dtypes : \E c \in 0..MaxCols : \E n \in 0..MaxRows :
           \E rows \in [1..n -> [1..c -> QueryCells]] :
               Query(Working(Frame(SubSeq(QueryColumns, 1, c), rows, dtype)))

NextApi == Upload \/ GetKeyMetrics \/ ExecuteSqlQuery

SpecApi == InitApi /\ [][NextApi]_vars



\* ------------------------------------------------------------- validation runs
Row(type, line_item, actual, plan) ==
    [Type |-> type, LineItem |-> line_item, Actual |-> actual, Plan |-> plan]

\* Rows of a fact table: the rows the claims expect, a second row of the
\* food sales line, rows of negative values, of plan 0, of other values,
\* of a missing line item, of another type.
FactRows ==
    { Row("Net Sales", <<"Sales_Food">>, 320433, 341386),
      Row("Net Sales", <<"Sales_Food", "_Catering">>, 100, 120),
      Row("Net Sales", <<"Sales_Food">>, -320433, 341386),
      Row("Net Sales", <<"Sales_Food">>, 320433, 0),
      Row("Net Sales", <<"Sales_Food">>, 320434, 341386),
      Row("Net Sales", <<"Sales_Food">>, -320433, -341386),
      Row("Net Sales", <<"Sales_Beverage">>, 15826, 19442),
      Row("Net Sales", <<"Sales_Retail">>, 692, 1000),
      Row("Net Sales", <<"Sales_Retail">>, 700, 0),
      Row("Net Sales", <<"Sales_Promotion">>, -19458, -14164),
      Row("Net Sales", <<"Sales_Promotion">>, -19458, 14164),
      Row("Net Sales", <<"Employee_Meals">>, -5882, -10454),
      Row("Net Sales", NaLineItem, 5, 5),
      Row("Restaurant Contribution", <<"Restaurant_Contribution">>, 562065, 598443),
      Row("Controllable Profit", <<"Controllable_Profit">>, 539814, 577730),
      Row("Controllable Profit", <<"Controllable_Profit">>, -539814, -577730),
      Row("Controllable Profit", <<"Controllable_Profit">>, 934, 1000),
      Row("Cogs", <<"Food_Cost">>, -100, -120) }

\* The columns a fact table has: all four, or all but one.
ColumnShapes == {FactColumns} \cup {FactColumns \ {c} : c \in FactColumns}

InitValidate ==
    /\ \E cols \in ColumnShapes : \E n \in 0..MaxFacts :
           \E rows \in [1..n -> FactRows] :
               facts = [columns |-> cols, rows |-> rows]
    /\ outcomes = <<>>
    /\ summary = NoSummary
    /\ band = ""
    /\ raised = FALSE
    /\ pc = "start"
    /\ text = <<>>
    /\ sql = <<>>
    /\ df = EmptyDataFrame
    /\ tbl = NoTable
    /\ reply = NoReply
    /\ content = <<>>
    /\ result = NoResult
    /\ calls = <<>>
    /\ ServiceIdle

\* One call of run_all_validations on the fact table.
RunAllValidations ==
    /\ pc = "start"
    /\ LET out == run_all_validations(facts)
       IN  /\ outcomes' = out.validation_results
           /\ summary' = out.summary
           /\ band' = out.band
           /\ raised' = out.raised
    /\ pc' = "validated"
    /\ UNCHANGED <<text, sql, df, tbl, reply, content, result, calls, facts,
                   serviceVars>>

NextValidate == RunAllValidations

SpecValidate == InitValidate /\ [][NextValidate]_vars

\* ------------------------------------------------------------- runs side by side
\* The five categories of run_all_validations, in the order it calls them.
Methods(f) ==
    <<validate_revenue_claims(f),
      validate_profitability_claims(f),
      validate_promotional_claims(f),
      validate_employee_meals_claims(f),
      validate_summary_metrics(f)>>

\* Mutant: the results of a run are added to those the validator holds.
KeepAppending(previous, all_results) == previous \o all_results

\* self.validation_results = all_results
Keep(previous, all_results) == all_results

\* A call of run_all_validations on validator v: the categories it has
\* called, its local results, and what it returned once it has.
NewRun(v) ==
    [validator |-> v, called |-> 0, all_results |-> <<>>, state |-> "running",
     detailed_results |-> <<>>, summary |-> NoSummary]

\* The rows of the fact tables two runs share.
RunRows ==
    { Row("Net Sales", <<"Sales_Food">>, 320433, 341386),
      Row("Net Sales", <<"Sales_Food">>, 320434, 341386),
      Row("Net Sales", <<"Sales_Promotion">>, -19458, -14164),
      Row("Controllable Profit", <<"Controllable_Profit">>, 539814, 577730) }

\* Two calls over one fact table, on one validator or on two.
InitRuns ==
    /\ \E cols \in ColumnShapes : \E n \in 0..MaxFacts :
           \E rows \in [1..n -> RunRows] :
               facts = [columns |-> cols, rows |-> rows]
    /\ \E v \in 1..2 : runs = <<NewRun(1), NewRun(v)>>
    /\ kept = <<<<>>, <<>>>>
    /\ outcomes = <<>>
    /\ summary = NoSummary
    /\ band = ""
    /\ raised = FALSE
    /\ pc = "start"
    /\ text = <<>>
    /\ sql = <<>>
    /\ df = EmptyDataFrame
    /\ tbl = NoTable
    /\ reply = NoReply
    /\ content = <<>>
    /\ result = NoResult
    /\ calls = <<>>
    /\ copies = NoCopies
    /\ health = <<>>
    /\ request = NoRequest
    /\ response = NoHttpResponse

\* Run r calls its next category: the results join its local ones, or the
\* exception of the category ends the run.
CallMethod(r) ==
    /\ runs[r].state = "running"
    /\ runs[r].called < Len(Methods(facts))
    /\ LET block == Methods(facts)[runs[r].called + 1]
       IN  runs' = IF block.ok
                   THEN [runs EXCEPT ![r].called = @ + 1,
                                     ![r].all_results = @ \o block.results]
                   ELSE [runs EXCEPT ![r].state = "raised"]
    /\ UNCHANGED <<text, pc, sql, df, raised, tbl, reply, content, result,
                   calls, facts, outcomes, summary, band,
                   copies, kept, health, request, response>>

\* Run r keeps its results in its validator and returns them with the
\* summary statistics.
FinishRun(r) ==
    /\ runs[r].state = "running"
    /\ runs[r].called = Len(Methods(facts))
    /\ kept' = [kept EXCEPT ![runs[r].validator] =
                    Keep(@, runs[r].all_results)]
    /\ runs' = [runs EXCEPT
                    ![r].state = "returned",
                    ![r].detailed_results = runs[r].all_results,
                    ![r].summary = Summarize(runs[r].all_results)]
    /\ UNCHANGED <<text, pc, sql, df, raised, tbl, reply, content, result,
                   calls, facts, outcomes, summary, band,
                   copies, health, request, response>>

NextRuns ==
    \/ \E r \in DOMAIN runs : CallMethod(r)
    \/ \E r \in DOMAIN runs : FinishRun(r)

SpecRuns == InitRuns /\ [][NextRuns]_vars


\* ------------------------------------------------------------- what the claims speak of
Keywords == <<"SELECT", "INSERT", "UPDATE", "DELETE">>

\* Start positions of complete fences tagged sql: a fence, the tag, and a
\* closing fence somewhere after the tag.
SqlFenceStarts(t) ==
    {i \in DOMAIN t :
        /\ t[i] = Fence
        /\ i + 1 <= Len(t) /\ Fold(t[i + 1]) = "sql"
        /\ \E j \in (i + 2)..Len(t) : t[j] = Fence}

HasSqlFence(t) == SqlFenceStarts(t) # {}

\* The trimmed inner content of the first fence tagged sql: everything
\* between the tag and the first closing fence after it.
SqlFenceContent(t) ==
    LET i == SetMin(SqlFenceStarts(t))
        j == SetMin({m \in (i + 2)..Len(t) : t[m] = Fence})
    IN  Strip(SubSeq(t, i + 2, j - 1))

\* Where the first fence tagged sql closes.
SqlFenceClose(t) ==
    LET i == SetMin(SqlFenceStarts(t))
    IN  SetMin({m \in (i + 2)..Len(t) : t[m] = Fence})

\* The position of SELECT in the untagged fence opening at i, 0 if the
\* fence opening at i does not begin with SELECT or is never closed.
SelectAfter(t, i) ==
    LET ps == {p \in (i + 1)..Len(t) :
                  /\ Fold(t[p]) = "SELECT"
                  /\ \A m \in (i + 1)..(p - 1) : IsWs(t[m])
                  /\ \E j \in (p + 1)..Len(t) : t[j] = Fence}
    IN  IF t[i] = Fence /\ ps # {} THEN SetMin(ps) ELSE 0

SelectFenceStarts(t) == {i \in DOMAIN t : SelectAfter(t, i) # 0}

HasSelectFence(t) == SelectFenceStarts(t) # {}

SelectFenceContent(t) ==
    LET p == SelectAfter(t, SetMin(SelectFenceStarts(t)))
        j == SetMin({m \in (p + 1)..Len(t) : t[m] = Fence})
    IN  Strip(SubSeq(t, p, j - 1))

\* Start positions of inline statements: a keyword followed by whitespace.
InlineStarts(t, kws) ==
    {i \in DOMAIN t :
        /\ \E k \in DOMAIN Keywords : Keywords[k] \in kws /\ Fold(t[i]) = Keywords[k]
        /\ i + 1 <= Len(t) /\ IsWs(t[i + 1])}

AllKeywords == {Keywords[k] : k \in DOMAIN Keywords}

\* The statement starting at i, up to its first semicolon or the end of
\* the text, trimmed.
Statement(t, i) ==
    LET semis == {j \in (i + 1)..Len(t) : t[j] = ";"}
    IN  Strip(SubSeq(t, i, IF semis = {} THEN Len(t) ELSE SetMin(semis)))

\* The keyword of highest priority that starts an inline statement.
TopKeyword(t) ==
    Keywords[SetMin({k \in DOMAIN Keywords : InlineStarts(t, {Keywords[k]}) # {}})]

\* ------------------------------------------------------------- C1
\* C1: recognizer precedence does not depend on position: a text with a
\* complete sql-tagged fence yields that fence's content, and a text with
\* no sql-tagged fence but an untagged fence beginning with SELECT yields
\* that fence's content, whatever untagged fence or inline statement
\* occurs earlier in the text.
C1_PrecedenceIgnoresPosition ==
    pc = "sql_done" =>
        /\ HasSqlFence(text) => sql = SqlFenceContent(text)
        /\ (~HasSqlFence(text) /\ HasSelectFence(text)) =>
               sql = SelectFenceContent(text)

\* An inline statement starts before the sql-tagged fence, and the
\* sql-tagged fence's content, not the statement, is returned.
C1_Witness ==
    /\ pc = "sql_done"
    /\ HasSqlFence(text)
    /\ \E i \in InlineStarts(text, AllKeywords) : i < SetMin(SqlFenceStarts(text))
    /\ sql = SqlFenceContent(text)
    /\ sql # Statement(text, SetMin(InlineStarts(text, AllKeywords)))

\* ------------------------------------------------------------- C2
\* C2: for a text with a complete sql-tagged fence the result is the
\* trimmed inner content of the first such fence, and it is the result for
\* the text cut right after that fence's closing fence: nothing that
\* follows the fence changes it.
C2_SqlFenceContentWhateverFollows ==
    (pc = "sql_done" /\ HasSqlFence(text)) =>
        /\ sql = SqlFenceContent(text)
        /\ sql = extract_sql_from_text(SubSeq(text, 1, SqlFenceClose(text)))

\* A non-empty sql-tagged fence is followed by another fence and more text.
C2_Witness ==
    /\ pc = "sql_done"
    /\ HasSqlFence(text)
    /\ sql # <<>>
    /\ \E j \in (SqlFenceClose(text) + 1)..Len(text) : text[j] = Fence
    /\ sql = SqlFenceContent(text)

\* ------------------------------------------------------------- C3
\* The first match of the first recognizer that matches at all, trimmed.
FirstMatching(t) ==
    IF HasSqlFence(t) THEN SqlFenceContent(t)
    ELSE IF HasSelectFence(t) THEN SelectFenceContent(t)
    ELSE IF InlineStarts(t, AllKeywords) # {}
    THEN Statement(t, SetMin(InlineStarts(t, {TopKeyword(t)})))
    ELSE <<>>

\* The first match, trimmed, of the first recognizer whose match is not
\* empty after trimming; only the sql-tagged fence can match emptily.
FirstNonEmptyMatching(t) ==
    IF HasSqlFence(t) /\ SqlFenceContent(t) # <<>> THEN SqlFenceContent(t)
    ELSE IF HasSelectFence(t) THEN SelectFenceContent(t)
    ELSE IF InlineStarts(t, AllKeywords) # {}
    THEN Statement(t, SetMin(InlineStarts(t, {TopKeyword(t)})))
    ELSE <<>>

\* C3 as stated: the result is the trimmed match of the first recognizer
\* that yields a non-empty match; an empty match does not stop the cascade.
C3_Original_FirstNonEmptyMatch ==
    pc = "sql_done" => sql = FirstNonEmptyMatching(text)

\* C3 as amended: the result is the trimmed first match of the first
\* recognizer, in the order of the list, that matches at all; an empty
\* match (an empty sql-tagged fence) stops the cascade and the empty string
\* is returned, as it is when no recognizer matches.
C3_FirstMatchEvenIfEmpty ==
    pc = "sql_done" =>
        /\ sql = FirstMatching(text)
        /\ (HasSqlFence(text) /\ SqlFenceContent(text) = <<>>) => sql = <<>>

\* An empty sql-tagged fence with an inline statement beside it: the result is empty.
C3_Witness ==
    /\ pc = "sql_done"
    /\ HasSqlFence(text)
    /\ SqlFenceContent(text) = <<>>
    /\ InlineStarts(text, AllKeywords) # {}
    /\ sql = <<>>

\* ------------------------------------------------------------- C4
\* C4 as stated: in a text with no fence and several inline statements the
\* result is the statement that starts earliest, whatever its keyword.
C4_Original_EarliestStatement ==
    (/\ pc = "sql_done"
     /\ ~Contains(text, Fence)
     /\ Cardinality(InlineStarts(text, AllKeywords)) >= 2) =>
        sql = Statement(text, SetMin(InlineStarts(text, AllKeywords)))

\* C4 as amended: in a text with no fence and several inline statements the
\* result is the earliest statement of the keyword of highest priority
\* present (SELECT, then INSERT, then UPDATE, then DELETE), up to its first
\* semicolon or the end of the text.
C4_EarliestOfTopKeyword ==
    (/\ pc = "sql_done"
     /\ ~Contains(text, Fence)
     /\ Cardinality(InlineStarts(text, AllKeywords)) >= 2) =>
        sql = Statement(text, SetMin(InlineStarts(text, {TopKeyword(text)})))

\* A DELETE statement starts before a SELECT statement and the SELECT
\* statement is returned.
C4_Witness ==
    /\ pc = "sql_done"
    /\ ~Contains(text, Fence)
    /\ InlineStarts(text, {"SELECT"}) # {}
    /\ InlineStarts(text, {"DELETE"}) # {}
    /\ SetMin(InlineStarts(text, {"DELETE"})) < SetMin(InlineStarts(text, {"SELECT"}))
    /\ sql = Statement(text, SetMin(InlineStarts(text, {"SELECT"})))
    /\ sql # Statement(text, SetMin(InlineStarts(text, AllKeywords)))

\* ------------------------------------------------------------- tables the claims speak of
\* The lines of a text, each trimmed.
TrimmedLines(t) ==
    LET ls == SplitOn(t, "\n") IN [i \in DOMAIN ls |-> Strip(ls[i])]

\* The indices of the lines the first run collects: lines with two pipes
\* or more that are no separator line, from the first line with two pipes
\* up to the first later line that is blank or has no pipe.
Collected(t) ==
    LET ls    == TrimmedLines(t)
        cands == {i \in DOMAIN ls : Count(ls[i], "|") >= 2}
        first == SetMin(cands)
        ends  == {i \in DOMAIN ls :
                     i > first /\ (ls[i] = <<>> \/ ~Contains(ls[i], "|"))}
    IN  IF cands = {} THEN {}
        ELSE {i \in cands :
                 /\ ~IsSeparatorLine(ls[i])
                 /\ ends # {} => i < SetMin(ends)}

\* A separator line lies within the first run.
SeparatorInRun(t) ==
    LET ls == TrimmedLines(t)
    IN  \E i \in DOMAIN ls :
            /\ Count(ls[i], "|") >= 2 /\ IsSeparatorLine(ls[i])
            /\ \E j \in Collected(t) : j < i

\* The cells of every collected line, header first.
CollectedCells(t) ==
    LET tl == TableLines(t) IN [i \in DOMAIN tl |-> CellsOf(tl[i])]

\* A data line after the first has more cells than the header and the
\* first data line have: the line read_csv refuses.
RowTooLong(t) ==
    LET c == CollectedCells(t)
    IN  \E i \in 3..Len(c) : Len(c[i]) > Max(Len(c[1]), Len(c[2]))

\* A row whose rendering is made of pipes, dashes, colons and blanks only.
SeparatorLike(row) == \A j \in DOMAIN row : row[j] \in {<<>>, <<"-">>}

\* The rows of a table that a scan can tell from a separator line.
KeptRows(T) == SelectSeq(T.rows, LAMBDA r : ~SeparatorLike(r))

\* ------------------------------------------------------------- C5
\* C5 as stated: extracting a rendered table gives back the table's
\* columns in order and its rows in order with the (trimmed) text of every
\* cell: no row dropped, no column renamed, no cell altered. A number or a
\* missing value is taken here for the text it was read from.
C5_RoundTrip ==
    (pc = "data_done" /\ tbl # NoTable) =>
        /\ df.columns = tbl.columns
        /\ Len(df.rows) = Len(tbl.rows)
        /\ \A i \in DOMAIN df.rows : \A j \in DOMAIN df.rows[i] :
               i \in DOMAIN tbl.rows /\ j \in DOMAIN tbl.rows[i]
               /\ df.rows[i][j].v = Strip(tbl.rows[i][j])

ReadAs(rows, i, j) ==
    LET cell    == Strip(rows[i][j])
        numeric == \A m \in DOMAIN rows :
                       rows[m][j] = <<>> \/ IsNumberField(rows[m][j])
    IN  IF cell = <<>> THEN NaN
        ELSE IF numeric THEN Num(cell) ELSE Str(cell)

C7_RowsFitTheHeader ==
    (pc = "data_done" /\ Len(TableLines(text)) >= 2) =>
        LET c == CollectedCells(text)
        IN  /\ Len(df.columns) = Len(c[1])
            /\ Len(df.rows) = Len(c) - 1
            /\ \A i \in DOMAIN df.rows :
                   /\ Len(df.rows[i]) = Len(c[1])
                   /\ \A j \in DOMAIN df.rows[i] :
                          df.rows[i][j].v =
                              IF j <= Len(c[i + 1]) THEN c[i + 1][j] ELSE <<>>

\* ------------------------------------------------------------- C8
\* C8: the result is the empty table, no columns and no rows, for every
\* text with no pipe and for every text whose first run collects fewer than
\* two lines (a header alone, with or without a separator line).
C8_FewerThanTwoLinesIsEmpty ==
    pc = "data_done" =>
        /\ ~Contains(text, "|") => df = EmptyDataFrame
        /\ Cardinality(Collected(text)) < 2 =>
               df.columns = <<>> /\ df.rows = <<>>

\* A header line and a separator line, no data row: the table is empty.
C8_Witness ==
    /\ pc = "data_done"
    /\ tbl = NoTable
    /\ Cardinality(Collected(text)) = 1
    /\ SeparatorInRun(text)
    /\ df = EmptyDataFrame

\* ------------------------------------------------------------- C9
\* C9: no call lets an exception out, and a text whose table read_csv
\* refuses gives the empty table.
C9_ErrorsAreCaught ==
    pc = "data_done" =>
        /\ ~raised
        /\ RowTooLong(text) => df = EmptyDataFrame

\* A table with a data line read_csv refuses was scanned: empty table, no exception.
C9_Witness ==
    /\ pc = "data_done"
    /\ RowTooLong(text)
    /\ ~raised
    /\ df = EmptyDataFrame

\* ------------------------------------------------------------- C10
\* The qualifying messages of a reply: assistant dicts with content, and
\* message objects.
Qualifying(r) ==
    {i \in DOMAIN r.messages :
        \/ r.messages[i].kind = "object"
        \/ /\ r.messages[i].kind = "dict"
           /\ r.messages[i].role = "assistant"
           /\ r.messages[i].content # <<>>}

\* The response text of a reply: the content of its last qualifying
\* message, or of the reply itself when it is a message object.
ResponseText(r) ==
    LET m == r.messages[SetMax(Qualifying(r))]
    IN  IF r.kind = "object" THEN PyStr(r.content)
        ELSE IF r.kind = "dict" /\ Qualifying(r) # {}
        THEN IF m.kind = "object" THEN PyStr(m.content) ELSE m.content
        ELSE <<>>

\* C10: for every non-empty response text (a string) the result's answer
\* is that text verbatim, its sql is extract_sql_from_text of the text and
\* its table is extract_data_from_text of the text.
C10_ResultOfNonEmptyResponse ==
    (/\ pc = "ask_done"
     /\ ResponseText(reply) # <<>>
     /\ IsStr(ResponseText(reply))) =>
        /\ result.answer = ResponseText(reply)
        /\ result.sql = extract_sql_from_text(ResponseText(reply))
        /\ result.df = extract_data_from_text(ResponseText(reply)).df

\* A reply of two messages whose last qualifying one holds a query and
\* a table: both were extracted and the answer is the text.
C10_Witness ==
    /\ pc = "ask_done"
    /\ reply.kind = "dict"
    /\ Len(reply.messages) = 2
    /\ ResponseText(reply) # <<>>
    /\ result.answer = ResponseText(reply)
    /\ result.sql # <<>>
    /\ result.df # EmptyDataFrame

\* ------------------------------------------------------------- C11
\* The sentinel result.
NoResponse == GenieResult(<<"No response from Genie">>, <<>>, EmptyDataFrame)

\* C11: when the agent returned and the response content is empty (no
\* usable message, or an empty string), the result is the sentinel answer
\* "No response from Genie" with empty sql and an empty table, and neither
\* extraction was called.
C11_EmptyContentGivesSentinel ==
    (pc = "ask_done" /\ reply.kind # "raise" /\ ResponseText(reply) = <<>>) =>
        /\ result = NoResponse
        /\ \A i \in DOMAIN calls :
               calls[i] \notin {"extract_sql_from_text", "extract_data_from_text"}

\* A reply of two messages, none usable: the sentinel came back and only
\* the agent was called.
C11_Witness ==
    /\ pc = "ask_done"
    /\ reply.kind = "dict"
    /\ Len(reply.messages) = 2
    /\ ResponseText(reply) = <<>>
    /\ result = NoResponse
    /\ calls = <<"invoke">>

\* ------------------------------------------------------------- C12
\* Something raised inside the call: the agent, or the SQL extraction on a
\* content that is no string.
SomethingRaised(r) ==
    \/ r.kind = "raise"
    \/ ResponseText(r) # <<>> /\ ~IsStr(ResponseText(r))

\* C12: no call lets an exception out, whatever the agent does; every call
\* returns a result with an answer, and when something raised the answer is
\* "Error calling Genie: <message>", the sql empty and the table empty.
C12_NeverRaises ==
    pc = "ask_done" =>
        /\ ~raised
        /\ result.answer # <<>>
        /\ SomethingRaised(reply) =>
               /\ Len(result.answer) = 2
               /\ result.answer[1] = "Error calling Genie: "
               /\ reply.kind = "raise" => result.answer[2] = reply.err
               /\ result.sql = <<>>
               /\ result.df = EmptyDataFrame

\* The agent returned a content that is no string, the SQL extraction
\* raised, and the error result came back.
C12_Witness ==
    /\ pc = "ask_done"
    /\ reply.kind = "dict"
    /\ ~IsStr(ResponseText(reply))
    /\ ~raised
    /\ result = ErrorResult("TypeError")

\* ------------------------------------------------------------- C13
\* The SQL extraction fails on this response: re.findall refuses it.
SqlExtractionFails(c) == ~IsStr(c)

\* The table extraction fails on this response: read_csv refuses its table.
TableExtractionFails(c) == IsStr(c) /\ RowTooLong(c)

\* The table of a response: that of its text, none for what is no text.
TableOfResponse(c) ==
    IF IsStr(c) THEN extract_data_from_text(c).df ELSE EmptyDataFrame

\* C13 as stated: for a non-empty response, when the SQL extraction fails
\* the result still has the response as answer and the response's table,
\* only sql being empty; when the table extraction fails the result still
\* has the answer and the extracted sql, only the table being empty.
C13_PartialFailureIsolation ==
    (pc = "ask_done" /\ reply.kind # "raise" /\ ResponseText(reply) # <<>>) =>
        /\ SqlExtractionFails(ResponseText(reply)) =>
               /\ result.answer = ResponseText(reply)
               /\ result.sql = <<>>
               /\ result.df = TableOfResponse(ResponseText(reply))
        /\ TableExtractionFails(ResponseText(reply)) =>
               /\ result.answer = ResponseText(reply)
               /\ result.sql = extract_sql_from_text(ResponseText(reply))
               /\ result.df = EmptyDataFrame

\* ------------------------------------------------------------- the claims a run checks
\* The ten claims of a run in order: the name, the filter, the method, and
\* the expected value.
CheckedClaims ==
    << [claim |-> "Food Sales: $320,433 actual vs $341,386 plan (-6.1%)",
        type |-> "Net Sales", fragment |-> "Sales_Food", method |-> "revenue",
        expected |-> Expected(320433, 341386, -61)],
       [claim |-> "Beverage Sales: $15,826 actual vs $19,442 plan (-18.6%)",
        type |-> "Net Sales", fragment |-> "Sales_Beverage", method |-> "revenue",
        expected |-> Expected(15826, 19442, -186)],
       [claim |-> "Retail Sales variance: -30.8%",
        type |-> "Net Sales", fragment |-> "Sales_Retail", method |-> "variance",
        expected |-> Tenths(-308)],
       [claim |-> "Restaurant Contribution: $562,065 vs $598,443 (-6.1%)",
        type |-> "Restaurant Contribution", fragment |-> NoFilter,
        method |-> "profitability", expected |-> Expected(562065, 598443, -61)],
       [claim |-> "Controllable Profit variance: -6.6%",
        type |-> "Controllable Profit", fragment |-> NoFilter,
        method |-> "variance", expected |-> Tenths(-66)],
       [claim |-> "Sales Promotions: $19,458 vs $14,164 (+37.4%)",
        type |-> "Net Sales", fragment |-> "Sales_Promotion",
        method |-> "promotional", expected |-> Expected(19458, 14164, 374)],
       [claim |-> "Employee Meals: $5,882 vs $10,454 (-43.7%)",
        type |-> "Net Sales", fragment |-> "Employee_Meals",
        method |-> "employee_meals", expected |-> Expected(5882, 10454, -437)],
       [claim |-> "Food Sales summary metrics",
        type |-> "Net Sales", fragment |-> "Sales_Food", method |-> "summary",
        expected |-> Expected(320433, 341386, -61)],
       [claim |-> "Beverage Sales summary metrics",
        type |-> "Net Sales", fragment |-> "Sales_Beverage", method |-> "summary",
        expected |-> Expected(15826, 19442, -186)],
       [claim |-> "Controllable Profit summary metrics",
        type |-> "Controllable Profit", fragment |-> NoFilter,
        method |-> "summary", expected |-> Expected(539814, 577730, -66)] >>

\* The claims whose expected value supplies actual, plan and variance.
SuppliesAll(c) == c.method # "variance"

\* The rows of the fact table that match a claim's filter, in order.
MatchingRows(c) ==
    SelectSeq(facts.rows,
              LAMBDA r : /\ r.Type = c.type
                         /\ \/ c.fragment = NoFilter
                            \/ /\ r.LineItem # NaLineItem
                               /\ \E k \in DOMAIN r.LineItem :
                                      r.LineItem[k] = c.fragment)

HasOutcome(c) == \E i \in DOMAIN outcomes : outcomes[i].claim = c.claim

OutcomeOf(c) ==
    outcomes[CHOOSE i \in DOMAIN outcomes : outcomes[i].claim = c.claim]

\* The variance an outcome reports.
ReportedVariance(c) ==
    IF SuppliesAll(c) THEN OutcomeOf(c).actual_value.variance
    ELSE OutcomeOf(c).actual_value

RECURSIVE SumActual(_)
SumActual(rows) ==
    IF rows = <<>> THEN 0 ELSE Head(rows).Actual + SumActual(Tail(rows))

RECURSIVE SumPlan(_)
SumPlan(rows) ==
    IF rows = <<>> THEN 0 ELSE Head(rows).Plan + SumPlan(Tail(rows))

\* The fact table has its four columns and a LineItem column of strings.
WellShaped ==
    /\ facts.columns = FactColumns
    /\ \/ facts.rows = <<>>
       \/ \E i \in DOMAIN facts.rows : facts.rows[i].LineItem # NaLineItem

\* The ratio v is the quotient num / den as the division leaves it.
IsQuotient(v, num, den) ==
    \E k \in {1, -1} : v.n = k * num /\ v.d = k * den /\ v.d > 0

\* ------------------------------------------------------------- C14
\* C14 as stated: a run that returns has one outcome per claim, whatever
\* the fact table; a claim no row matches has an outcome with computed
\* actual 0 and plan 0 that is not valid.
C14_OneOutcomePerClaim ==
    (pc = "validated" /\ ~raised) =>
        /\ Len(outcomes) = Len(CheckedClaims)
        /\ \A k \in DOMAIN CheckedClaims :
               /\ HasOutcome(CheckedClaims[k])
               /\ (MatchingRows(CheckedClaims[k]) = <<>>
                   /\ SuppliesAll(CheckedClaims[k])) =>
                      /\ OutcomeOf(CheckedClaims[k]).actual_value.actual = 0
                      /\ OutcomeOf(CheckedClaims[k]).actual_value.plan = 0
                      /\ ~OutcomeOf(CheckedClaims[k]).is_valid

\* ------------------------------------------------------------- C15
\* C15 as stated: when several rows match the filter of a claim, the
\* computed actual is the sum of Actual and the computed plan the sum of
\* Plan over the matching rows. Stated for the claims of the revenue and
\* profitability methods, where no sign is normalized.
C15_SumOverMatchingRows ==
    (pc = "validated" /\ ~raised) =>
        \A k \in DOMAIN CheckedClaims :
            (/\ CheckedClaims[k].method \in {"revenue", "profitability"}
             /\ Len(MatchingRows(CheckedClaims[k])) > 1
             /\ HasOutcome(CheckedClaims[k])) =>
                /\ OutcomeOf(CheckedClaims[k]).actual_value.actual =
                       SumActual(MatchingRows(CheckedClaims[k]))
                /\ OutcomeOf(CheckedClaims[k]).actual_value.plan =
                       SumPlan(MatchingRows(CheckedClaims[k]))

\* ------------------------------------------------------------- C16
\* The tolerances on a variance found in the code: 0.1, 0.5 and 1 point.
VarianceTolerances == {Tenths(1), Tenths(5), Tenths(10)}

\* The three tests on what an outcome reports, for a variance tolerance t.
AllThreeHold(c, t) ==
    LET o == OutcomeOf(c)
    IN  /\ Abs(o.actual_value.actual - c.expected.actual) < 1
        /\ Abs(o.actual_value.plan - c.expected.plan) < 1
        /\ Within(o.actual_value.variance, c.expected.variance, t)

Normalized(c) ==
    \/ c.method \in {"promotional", "employee_meals"}
    \/ c.method = "summary" /\ MatchingRows(c)[1].Actual < 0

\* C17 as stated: in every outcome that holds absolute values of the
\* matched row, the reported actual and plan are not negative and the
\* reported variance % is (actual - plan) / plan * 100 of the reported
\* values (0 when the reported plan is 0).
C17_NormalizedConsistently ==
    (pc = "validated" /\ ~raised) =>
        \A k \in DOMAIN CheckedClaims :
            (/\ HasOutcome(CheckedClaims[k])
             /\ MatchingRows(CheckedClaims[k]) # <<>>
             /\ Normalized(CheckedClaims[k])) =>
                LET v == OutcomeOf(CheckedClaims[k]).actual_value
                IN  /\ v.actual >= 0
                    /\ v.plan >= 0
                    /\ IF v.plan = 0 THEN v.variance.n = 0
                       ELSE IsQuotient(v.variance,
                                       (v.actual - v.plan) * 100, v.plan)

\* ------------------------------------------------------------- C18
\* The values a method computes the variance from: the first matching
\* row's, made absolute in the promotions and employee meals methods.
ActualUsed(c) ==
    IF c.method \in {"promotional", "employee_meals"}
    THEN Abs(MatchingRows(c)[1].Actual) ELSE MatchingRows(c)[1].Actual

PlanUsed(c) ==
    IF c.method \in {"promotional", "employee_meals"}
    THEN Abs(MatchingRows(c)[1].Plan) ELSE MatchingRows(c)[1].Plan

\* C18: on a fact table with its columns, no run raises, and every claim
\* that a row matches has an outcome whose variance % is
\* (actual - plan) / plan * 100 when plan is not 0 and exactly 0 when plan
\* is 0, in every method.
C18_VarianceZeroOnZeroPlan ==
    (pc = "validated" /\ WellShaped) =>
        /\ ~raised
        /\ \A k \in DOMAIN CheckedClaims :
               MatchingRows(CheckedClaims[k]) # <<>> =>
                   /\ HasOutcome(CheckedClaims[k])
                   /\ IF PlanUsed(CheckedClaims[k]) = 0
                      THEN ReportedVariance(CheckedClaims[k]) = Whole(0)
                      ELSE IsQuotient(ReportedVariance(CheckedClaims[k]),
                                      (ActualUsed(CheckedClaims[k])
                                       - PlanUsed(CheckedClaims[k])) * 100,
                                      PlanUsed(CheckedClaims[k]))

\* A matched row of plan 0: the run returned and the outcome's variance is 0.
C18_Witness ==
    /\ pc = "validated"
    /\ ~raised
    /\ \E k \in DOMAIN CheckedClaims :
           /\ MatchingRows(CheckedClaims[k]) # <<>>
           /\ MatchingRows(CheckedClaims[k])[1].Plan = 0
           /\ MatchingRows(CheckedClaims[k])[1].Actual # 0
           /\ HasOutcome(CheckedClaims[k])
           /\ ReportedVariance(CheckedClaims[k]) = Whole(0)

\* ------------------------------------------------------------- C19
\* C19 as stated: run_all_validations returns without raising for every
\* fact table, one without the Type, LineItem, Actual or Plan column and
\* an empty one included.
C19_ValidationIsTotal ==
    pc = "validated" => ~raised

\* ------------------------------------------------------------- C20
\* The band of a run with the given counts.
BandOf(valid, total) ==
    IF total = 0 THEN "POOR"
    ELSE IF valid * 100 >= 95 * total THEN "EXCELLENT"
    ELSE IF valid * 100 >= 85 * total THEN "GOOD"
    ELSE IF valid * 100 >= 70 * total THEN "FAIR"
    ELSE "POOR"

\* C20: in the summary of a run, valid_count + invalid_count =
\* total_validations, valid_count is the number of outcomes that are valid,
\* total_validations the number of outcomes, accuracy_rate is
\* valid_count / total_validations * 100 (0 when there is no outcome), and
\* the band printed is that of the accuracy rate (95, 85, 70).
C20_SummaryCounts ==
    (pc = "validated" /\ ~raised) =>
        /\ summary.total_validations = Len(outcomes)
        /\ summary.valid_count =
               Cardinality({i \in DOMAIN outcomes : outcomes[i].is_valid})
        /\ summary.valid_count + summary.invalid_count = summary.total_validations
        /\ IF summary.total_validations = 0
           THEN summary.accuracy_rate = Whole(0)
           ELSE summary.accuracy_rate.n * summary.total_validations
                    = summary.valid_count * 100 * summary.accuracy_rate.d
        /\ band = BandOf(summary.valid_count, summary.total_validations)

\* A run with valid and invalid outcomes: the rate is strictly between 0
\* and 100 and the band is not that of a perfect run.
C20_Witness ==
    /\ pc = "validated"
    /\ ~raised
    /\ summary.valid_count > 0
    /\ summary.invalid_count > 0
    /\ summary.valid_count + summary.invalid_count = Len(outcomes)
    /\ band = "FAIR"

\* ------------------------------------------------------------- C30
\* C30: the three copies of extract_sql_from_text (genie_client_local,
\* genie_client_databricks, the insights notebook) return the same string
\* for every input text.
C30_CopiesAgree ==
    pc = "copies_done" =>
        /\ copies.databricks = sql
        /\ copies.notebook = sql

\* ------------------------------------------------------------- C25
\* The index of the line that ends the first run: the first line after the
\* first line with two pipes that is blank or has no pipe; 0 when no line
\* ends it.
RunEnd(t) ==
    LET ls    == TrimmedLines(t)
        cands == {i \in DOMAIN ls : Count(ls[i], "|") >= 2}
        first == SetMin(cands)
        ends  == {i \in DOMAIN ls :
                     /\ i > first
                     /\ (ls[i] = <<>> \/ ~Contains(ls[i], "|"))}
    IN  IF cands = {} \/ ends = {} THEN 0 ELSE SetMin(ends)

\* The text before the line that ends the first run.
FirstRunText(t) ==
    IF RunEnd(t) = 0 THEN t
    ELSE JoinLines(SubSeq(SplitOn(t, "\n"), 1, RunEnd(t) - 1))

\* The lines at the indices of Collected, in the order of the text.
CollectedLines(t) ==
    LET ls  == TrimmedLines(t)
        got == Collected(t)
        idx == [i \in DOMAIN ls |-> i]
        at  == SelectSeq(idx, LAMBDA i : i \in got)
    IN  [k \in DOMAIN at |-> ls[at[k]]]

\* A row of a later block: a line with two pipes, no separator line, after
\* the line that ended the first run.
LaterBlock(t) ==
    LET ls == TrimmedLines(t)
    IN  /\ RunEnd(t) # 0
        /\ \E i \in DOMAIN ls :
               /\ i > RunEnd(t)
               /\ Count(ls[i], "|") >= 2 /\ ~IsSeparatorLine(ls[i])

\* C25: once a line with two pipes or more has been seen, the first later
\* line that is blank or has no pipe ends collection: the collected lines
\* all lie before it, and the table returned is the table of the text cut
\* before that line, whatever follows it, a later table block included.
C25_FirstRunOnly ==
    pc = "data_done" =>
        LET end == RunEnd(text)
            cut == extract_data_from_text(FirstRunText(text))
        IN  /\ TableLines(text) = CollectedLines(text)
            /\ end # 0 =>
                   /\ \A i \in Collected(text) : i < end
                   /\ df = cut.df
                   /\ raised = cut.raised

\* A block of a header and one row, a line that ends it, a later row: the
\* table has the one row of the first block.
C25_Witness ==
    /\ pc = "data_done"
    /\ LaterBlock(text)
    /\ Cardinality(Collected(text)) = 2
    /\ Len(df.rows) = 1

\* ------------------------------------------------------------- C26
\* A line made of pipes, dashes, colons and whitespace only.
OnlyPunctuation(line) ==
    \A i \in DOMAIN line : line[i] \in {"|", "-", " ", "\n"}

\* C26: no collected line is made of pipes, dashes, colons and whitespace
\* only; such a candidate line is passed over wherever it lies in the run,
\* the candidate lines after it are still collected, and it does not count
\* toward the two lines a table needs.
C26_SeparatorsSkipped ==
    pc = "data_done" =>
        LET table_lines == TableLines(text)
            n == Cardinality(Collected(text))
        IN  /\ \A k \in DOMAIN table_lines : ~OnlyPunctuation(table_lines[k])
            /\ Len(table_lines) = n
            /\ n < 2 => df = EmptyDataFrame

\* A separator line lies between two collected lines and the table has the
\* row after it.
C26_Witness ==
    /\ pc = "data_done"
    /\ LET ls == TrimmedLines(text)
       IN  \E i \in DOMAIN ls :
               /\ Count(ls[i], "|") >= 2 /\ OnlyPunctuation(ls[i])
               /\ \E j \in Collected(text) : j < i
               /\ \E j \in Collected(text) : j > i
    /\ Len(df.rows) >= 1

\* ------------------------------------------------------------- C27
\* The cells of a line when one leading and one trailing pipe are removed.
OnePipeCells(line) ==
    LET a == IF line # <<>> /\ Head(line) = "|" THEN Tail(line) ELSE line
        b == IF a # <<>> /\ a[Len(a)] = "|"
             THEN SubSeq(a, 1, Len(a) - 1) ELSE a
        pieces == SplitOn(b, "|")
    IN  [k \in DOMAIN pieces |-> Strip(pieces[k])]

\* C27: the cells of a collected line are what splitting on the pipe gives
\* once exactly one leading and exactly one trailing pipe are removed:
\* further pipes at either edge delimit empty cells, which are kept, so the
\* table has one column for each such cell of its header line.
C27_OnePipeEachSide ==
    pc = "data_done" =>
        /\ \A i \in DOMAIN TableLines(text) :
               CellsOf(TableLines(text)[i]) = OnePipeCells(TableLines(text)[i])
        /\ df # EmptyDataFrame =>
               Len(df.columns) = Len(OnePipeCells(TableLines(text)[1]))

\* ------------------------------------------------------------- C22
\* The agent could not be reached or gave nothing: the invocation raised,
\* or no content was found in what it returned.
AgentFailed == reply.kind = "raise" \/ content = <<>>

\* C22: get_genie_health_status returns "healthy" only when the agent was
\* reached and produced a response; when the invocation raises or yields
\* no content it returns a string that starts with "error", and /api/health
\* marks genie as not healthy.
C22_HealthyOnlyWhenResponded ==
    (pc = "health_done" /\ AgentFailed) =>
        /\ StartsWithError(health)
        /\ response.genie.status # "healthy"

\* ------------------------------------------------------------- C21
\* What the runs that have ended agree on: two that returned gave the same
\* outcomes and the same summary, those of one call on the fact table; one
\* that raised is matched by any other that ended; and a validator holds
\* the outcomes of the runs that returned on it and nothing of earlier runs.
RunsAgree ==
    /\ \A r \in DOMAIN runs : \A s \in DOMAIN runs :
           /\ (runs[r].state = "returned" /\ runs[s].state = "returned") =>
                  /\ runs[r].detailed_results = runs[s].detailed_results
                  /\ runs[r].summary = runs[s].summary
           /\ (runs[r].state = "raised" /\ runs[s].state # "running") =>
                  runs[s].state = "raised"
    /\ \A r \in DOMAIN runs :
           runs[r].state = "returned" =>
               /\ ~run_all_validations(facts).raised
               /\ runs[r].detailed_results =
                      run_all_validations(facts).validation_results
               /\ runs[r].summary = run_all_validations(facts).summary
               /\ kept[runs[r].validator] = runs[r].detailed_results

\* What a run returned stays as it is whatever another run does.
ReturnedIsStable ==
    \A r \in DOMAIN runs :
        runs[r].state = "returned" => runs'[r] = runs[r]

\* C21: two runs of run_all_validations over the same fact table, one
\* after the other or interleaved, on one validator or on two, return the
\* same outcomes and the same summary; what one run returned is never
\* changed by the other, and no validation state is carried over.
C21_RunsDoNotInterfere == []RunsAgree /\ [][ReturnedIsStable]_vars

\* Both runs returned outcomes on the same validator.
C21_Witness ==
    /\ \A r \in DOMAIN runs : runs[r].state = "returned"
    /\ runs[1].validator = runs[2].validator
    /\ runs[1].detailed_results # <<>>

\* ------------------------------------------------------------- C28
\* The two claims on the same metric: the one of the revenue or the
\* profitability method, and the one of the summary metrics.
SameMetric ==
    { <<CheckedClaims[1], CheckedClaims[8]>>,
      <<CheckedClaims[2], CheckedClaims[9]>>,
      <<CheckedClaims[5], CheckedClaims[10]>> }

BothChecked(p) == HasOutcome(p[1]) /\ HasOutcome(p[2])

\* C28 as stated: in one run the two outcomes for the same metric (Food
\* Sales, Beverage Sales, Controllable Profit) have the same is_valid.
C28_Original_SameVerdict ==
    (pc = "validated" /\ ~raised) =>
        \A p \in SameMetric :
            BothChecked(p) =>
                OutcomeOf(p[1]).is_valid = OutcomeOf(p[2]).is_valid

\* C28 as amended: for Food Sales and Beverage Sales a valid revenue
\* outcome comes with a valid summary outcome, and the two verdicts are the
\* same whenever the matched row's Actual is not negative; for Controllable
\* Profit a valid summary outcome comes with a valid profitability outcome
\* (which tests the variance alone), not the other way round.
C28_CompatibleVerdicts ==
    (pc = "validated" /\ ~raised) =>
        \A p \in SameMetric :
            BothChecked(p) =>
                IF p[1].method = "revenue"
                THEN /\ OutcomeOf(p[1]).is_valid => OutcomeOf(p[2]).is_valid
                     /\ MatchingRows(p[1])[1].Actual >= 0 =>
                            OutcomeOf(p[1]).is_valid = OutcomeOf(p[2]).is_valid
                ELSE OutcomeOf(p[2]).is_valid => OutcomeOf(p[1]).is_valid

\* Controllable Profit has the claimed variance and other amounts: valid
\* in the profitability method, invalid among the summary metrics; and a
\* food sales row is valid in both.
C28_Witness ==
    /\ pc = "validated" /\ ~raised
    /\ BothChecked(<<CheckedClaims[5], CheckedClaims[10]>>)
    /\ OutcomeOf(CheckedClaims[5]).is_valid
    /\ ~OutcomeOf(CheckedClaims[10]).is_valid
    /\ BothChecked(<<CheckedClaims[1], CheckedClaims[8]>>)
    /\ OutcomeOf(CheckedClaims[1]).is_valid
    /\ OutcomeOf(CheckedClaims[8]).is_valid

\* ------------------------------------------------------------- C23
\* The uploaded file has a name and the name does not end in .csv, .xlsx
\* or .xls.
UnsupportedName ==
    /\ request.input.named
    /\ request.input.suffix \notin {".csv", ".xlsx", ".xls"}

\* C23: an upload whose filename does not end in .csv, .xlsx or .xls is
\* answered with HTTP 400 and the detail "Only CSV and Excel files are
\* supported"; HTTP 500 is kept for unexpected failures.
C23_UnsupportedFileIs400 ==
    pc = "upload_done" =>
        /\ UnsupportedName =>
               /\ response.status_code = 400
               /\ response.message = <<"Only CSV and Excel files are supported">>
        /\ response.status_code = 500 => ~UnsupportedName

\* ------------------------------------------------------------- C24
\* C24: /api/analytics/kpis never fails: whatever get_monthly_trends gave
\* (data, an empty table, an exception) the response is a success with
\* exactly four KPIs named Revenue, EBITDA Margin, Labor %, Transactions,
\* each with a name, a value, a change and a period.
C24_KpisNeverFail ==
    pc = "kpis_done" =>
        /\ response.status_code = 200
        /\ response.status = "success"
        /\ response.body.kind = "kpis"
        /\ [i \in DOMAIN response.body.kpis |-> response.body.kpis[i].name]
               = <<"Revenue", "EBITDA Margin", "Labor %", "Transactions">>
        /\ \A i \in DOMAIN response.body.kpis :
               DOMAIN response.body.kpis[i] =
                   {"name", "value", "change", "period"}

\* ------------------------------------------------------------- C29
\* The query met a failure of the warehouse: a variable not set, the
\* connection refused, the execution refused.
WarehouseFailed ==
    \/ request.input.unset # {}
    \/ request.input.connect = "error"
    \/ request.input.execute = "error"

\* What /api/db/query answers to a query of zero rows.
ZeroRowsAnswer ==
    [status_code |-> 200, status |-> "success",
     message |-> <<"Query executed successfully but returned no results">>,
     body |-> [kind |-> "data", columns |-> <<>>, rows |-> <<>>,
               shape |-> <<0, 0>>, floats |-> <<>>]]

\* C29: sql_query lets no exception out; on a failure of the warehouse it
\* returns an empty table, so /api/db/query answers the failed query as it
\* answers a query of zero rows (success, no columns, no rows) and never
\* with its HTTP 500 "SQL query failed".
C29_FailedQueryIsEmptySuccess ==
    pc = "query_done" =>
        /\ ~raised
        /\ WarehouseFailed => response = ZeroRowsAnswer
        /\ (~WarehouseFailed /\ request.input.table.rows = <<>>) =>
               response = ZeroRowsAnswer
        /\ response.status_code = 500 =>
               /\ ~WarehouseFailed
               /\ Head(response.message) # "SQL query failed: "

\* The execution of the query failed and the answer is the empty success.
C29_Witness ==
    /\ pc = "query_done"
    /\ request.input.execute = "error"
    /\ response.status_code = 200
    /\ response.body.rows = <<>>

=============================================================================
